---- MODULE Spec2Model ----
(***************************************************************************)
(* State-machine model of the client-side store of "Portais da             *)
(* Consciencia" (src/types.ts, which holds both the type declarations and  *)
(* the zustand store) and of the two App effects that drive it             *)
(* (src/App.tsx).  Numbers are the integers the UI shows; time is counted  *)
(* in ticks of the wall clock, TicksPerDay ticks to a local calendar day.  *)
(***************************************************************************)
EXTENDS Integers, Sequences, FiniteSets, TLC

VARIABLES
    \* ---- store fields (AppState, src/types.ts 474-510) ----
    coherenceVector, ucs, recommendation, recommendationName,
    currentSession, lastAgentContext, chatHistories, isLoadingMessage,
    toolStates, toasts, schedules, guideState, completedTours, activityLog,
    isVoiceNavOpen, reconnectionAgentId, proactiveNavContext, pendingSession,
    coherencePoints, coherenceStreak, lastActivityTimestamp,
    activeQuest, completedQuests, isLoadingQuest,
    evolutionSummary, isLoadingEvolution, doshaChat,
    \* ---- environment ----
    storage,      \* the blob under the persist key in localStorage, or Null
    fetches,      \* requests still in flight: proactive summaries, messages
    now,          \* Date.now(), in ticks
    \* ---- bookkeeping used only to state properties ----
    nLogged,      \* number of logActivity calls made so far
    nFetches,     \* number of proactive-summary requests issued so far
    lastOp        \* the handler that produced the current state

vectorVars  == <<coherenceVector, ucs, recommendation, recommendationName>>
sessionVars == <<currentSession, lastAgentContext, chatHistories,
                 isVoiceNavOpen, reconnectionAgentId, proactiveNavContext,
                 pendingSession>>
gameVars    == <<coherencePoints, coherenceStreak, lastActivityTimestamp,
                 activeQuest, completedQuests>>
loadVars    == <<isLoadingMessage, isLoadingQuest, evolutionSummary,
                 isLoadingEvolution, doshaChat>>
guideVars   == <<guideState, completedTours>>
vars == <<vectorVars, sessionVars, gameVars, loadVars, guideVars,
          toolStates, toasts, schedules, activityLog,
          storage, fetches, now, nLogged, nFetches, lastOp>>

\* The in-memory state of the store.
storeVars == <<vectorVars, sessionVars, gameVars, loadVars, guideVars,
               toolStates, toasts, schedules, activityLog>>

Null == "null"

(***************************************************************************)
(* Bounds of the model.                                                    *)
(***************************************************************************)
MaxChangedDims == 1   \* SpecUcs: dimensions that may differ from the rest
MaxLogged      == 3   \* Spec..: logActivity calls per run
MaxLoggedLong  == 103 \* SpecLog: logActivity calls per run (past the cap)
MaxHistory     == 2   \* messages kept per chat history
MaxArchived    == 1   \* SpecSession: chats archived per run
MaxTime        == 4   \* last tick of the clock
MaxClock       == 9   \* SpecSchedule: last tick of the clock
MaxToasts      == 2   \* toasts on screen
MaxSchedules   == 1   \* SpecCall: schedules created per run
MaxFetches     == 1   \* proactive-summary requests per run
MaxStored      == 16  \* SpecStorage: log length reached
MaxQuotaLog    == 12  \* SpecQuota: log length reached
MaxQuests      == 2   \* SpecQuest: quests received per run
TicksPerDay    == 2   \* clock ticks per calendar day

(***************************************************************************)
(* CoherenceVector (src/types.ts 54-72).                                   *)
(***************************************************************************)
DimensionKeys ==
    <<"proposito", "mental", "relacional", "emocional", "somatico",
      "eticoAcao", "recursos">>

Dimensions == {DimensionKeys[i] : i \in 1..Len(DimensionKeys)}

DimensionState(c, d) == [coerencia |-> c, dissonancia |-> d]

initialVector ==
    [alinhamentoPAC |-> 70,
     proposito  |-> DimensionState(60, 30),
     mental     |-> DimensionState(75, 40),
     relacional |-> DimensionState(65, 35),
     emocional  |-> DimensionState(50, 50),
     somatico   |-> DimensionState(70, 20),
     eticoAcao  |-> DimensionState(80, 10),
     recursos   |-> DimensionState(55, 60)]

UniformVector(c, d, p) ==
    [k \in DOMAIN initialVector |->
        IF k = "alinhamentoPAC" THEN p ELSE DimensionState(c, d)]

\* The example vector: every dimension at 50/50, alinhamentoPAC 70.
VecBalanced == UniformVector(50, 50, 70)

\* A vector every field of which is inside the documented range 0..100.
ValidVector(v) ==
    /\ v.alinhamentoPAC \in 0..100
    /\ \A k \in Dimensions :
          v[k].coerencia \in 0..100 /\ v[k].dissonancia \in 0..100

Max(a, b) == IF a >= b THEN a ELSE b
Min(a, b) == IF a <= b THEN a ELSE b

RECURSIVE SumCoerencia(_, _)
SumCoerencia(vector, i) ==
    IF i = 0 THEN 0
    ELSE SumCoerencia(vector, i - 1) + vector[DimensionKeys[i]].coerencia

RECURSIVE SumDissonancia(_, _)
SumDissonancia(vector, i) ==
    IF i = 0 THEN 0
    ELSE SumDissonancia(vector, i - 1) + vector[DimensionKeys[i]].dissonancia

(***************************************************************************)
(* calculateUcs (src/types.ts 351-369).  The code computes                 *)
(*   net   = totalCoherence/7 - totalDissonance/7                          *)
(*   final = (net * (pac/100*0.2 + 0.9) + 100) / 2                         *)
(*   Math.round(max(0, min(100, final)))                                   *)
(* Over the integers: 7*net = totalC - totalD, 500*pacFactor = pac + 450,  *)
(* so 7000*final = (totalC - totalD)*(pac + 450) + 350000; the clamp to    *)
(* 0..100 is a clamp of 7000*final to 0..700000 and Math.round(x) is       *)
(* floor(x + 1/2).                                                         *)
(***************************************************************************)
UcsNoClamp(vector) ==
    LET totalCoherence  == SumCoerencia(vector, Len(DimensionKeys))
        totalDissonance == SumDissonancia(vector, Len(DimensionKeys))
        final7000 == (totalCoherence - totalDissonance)
                        * (vector.alinhamentoPAC + 450) + 350000
    IN  (2 * final7000 + 7000) \div 14000

\* The score with the two totals of the net coherence exchanged.
UcsNetReversed(vector) ==
    LET totalCoherence  == SumCoerencia(vector, Len(DimensionKeys))
        totalDissonance == SumDissonancia(vector, Len(DimensionKeys))
        final7000 == (totalDissonance - totalCoherence)
                        * (vector.alinhamentoPAC + 450) + 350000
        clamped   == Max(0, Min(700000, final7000))
    IN  (2 * clamped + 7000) \div 14000

calculateUcs(vector) ==
    LET totalCoherence  == SumCoerencia(vector, Len(DimensionKeys))
        totalDissonance == SumDissonancia(vector, Len(DimensionKeys))
        final7000 == (totalCoherence - totalDissonance)
                        * (vector.alinhamentoPAC + 450) + 350000
        clamped   == Max(0, Min(700000, final7000))
    IN  (2 * clamped + 7000) \div 14000

(***************************************************************************)
(* getPicRecommendation (src/types.ts 372-397): a scan of the seven        *)
(* dimensions in table order that keeps the first strictly greater         *)
(* dissonancia, starting from -1 and the default {COHERENCE, "Geral"}.     *)
(***************************************************************************)
PicTable ==
    <<[key |-> "proposito",  agent |-> "self_knowledge",   name |-> "Proposito"],
      [key |-> "mental",     agent |-> "self_knowledge",   name |-> "Mental"],
      [key |-> "relacional", agent |-> "coherence",        name |-> "Relacional"],
      [key |-> "emocional",  agent |-> "coherence",        name |-> "Emocional"],
      [key |-> "somatico",   agent |-> "health",           name |-> "Somatico"],
      [key |-> "eticoAcao",  agent |-> "coherence",        name |-> "Etico-Acao"],
      [key |-> "recursos",   agent |-> "emotional_finance", name |-> "Recursos"]>>

RECURSIVE PicScan(_, _, _, _)
PicScan(vector, i, highestDissonance, rec) ==
    IF i > Len(PicTable) THEN rec
    ELSE LET dim == PicTable[i]
             d   == vector[dim.key].dissonancia
         IN  IF d > highestDissonance
             THEN PicScan(vector, i + 1, d,
                          [agentId |-> dim.agent, dimensionName |-> dim.name])
             ELSE PicScan(vector, i + 1, highestDissonance, rec)

RECURSIVE PicScanLast(_, _, _, _)
PicScanLast(vector, i, highestDissonance, rec) ==
    IF i > Len(PicTable) THEN rec
    ELSE LET dim == PicTable[i]
             d   == vector[dim.key].dissonancia
         IN  IF d >= highestDissonance
             THEN PicScanLast(vector, i + 1, d,
                          [agentId |-> dim.agent, dimensionName |-> dim.name])
             ELSE PicScanLast(vector, i + 1, highestDissonance, rec)

PicRecommendationLast(vector) ==
    PicScanLast(vector, 1, -1, [agentId |-> "coherence", dimensionName |-> "Geral"])

getPicRecommendation(vector) ==
    PicScan(vector, 1, -1, [agentId |-> "coherence", dimensionName |-> "Geral"])

(***************************************************************************)
(* Values of the store.                                                    *)
(***************************************************************************)
NoSession   == [type |-> "null"]          \* currentSession / pendingSession: null
NoQuest     == [id |-> "null"]            \* activeQuest: null
NoTimestamp == -1                         \* lastActivityTimestamp: null
LogCap      == 100                        \* activityLog is cut to this length

\* proactiveNavContext: null, 'loading', one of the two fixed lines of
\* endSession (lines 660-662), or the text a summary request resolved to.
NoContext == <<"null", 0>>
Loading == <<"loading", 0>>
ClosingLine == <<"Sessao encerrada. O que voce gostaria de fazer a seguir?", 0>>
WhatNextLine == <<"O que voce gostaria de fazer agora?", 0>>
SummaryOf(fetch) == <<"summary", fetch.id>>

AgentIds  == {"coherence", "self_knowledge", "health", "emotional_finance"}
ChatAgents == {"coherence", "health"}     \* the mentors the model chats with
ToolIds   == {"meditation", "dosh_diagnosis", "wellness_visualizer",
              "scheduled_session", "new_tool"}

initialGuideState == [isActive |-> FALSE, step |-> 0, tourId |-> Null, context |-> Null]

initialToolStates ==
    [therapeuticJournal      |-> [history |-> <<>>],
     verbalFrequencyAnalysis |-> [history |-> <<>>],
     doshaDiagnosis          |-> [messages |-> <<>>, isFinished |-> FALSE,
                                  error |-> Null],
     doshaResult             |-> Null]

(***************************************************************************)
(* orchestrate (./hooks/usePicOrchestrator.ts, imported at                 *)
(* src/types.ts 346 and absent from the sources): modelled from the        *)
(* specification's section 4.3: a rule table keyed by toolId, or the       *)
(* generic chat completion, that nudges dimensions and awards points; an   *)
(* unrecognized toolId gets the neutral delta and the minimal award; no    *)
(* field of the result leaves 0..100 whatever the input.                   *)
(***************************************************************************)
ToolDelta     == 5
MinimalPoints == 1
RulePoints    == 10

Clamp(x) == Max(0, Min(100, x))

OrchestrateRule(entry) ==
    IF entry.type = "chat_session"
        THEN [key |-> "emocional", delta |-> ToolDelta, points |-> RulePoints]
    ELSE IF entry.toolId = "meditation"
        THEN [key |-> "mental", delta |-> ToolDelta, points |-> RulePoints]
    ELSE IF entry.toolId = "dosh_diagnosis"
        THEN [key |-> "somatico", delta |-> ToolDelta, points |-> RulePoints]
    ELSE IF entry.toolId = "wellness_visualizer"
        THEN [key |-> "proposito", delta |-> ToolDelta, points |-> RulePoints]
    ELSE IF entry.toolId = "scheduled_session"
        THEN [key |-> "eticoAcao", delta |-> ToolDelta, points |-> RulePoints]
    ELSE [key |-> "proposito", delta |-> 0, points |-> MinimalPoints]

orchestrate(entry, vector) ==
    LET rule == OrchestrateRule(entry)
        nudged(k) ==
            IF k = rule.key
            THEN DimensionState(vector[k].coerencia + rule.delta,
                                vector[k].dissonancia - rule.delta)
            ELSE vector[k]
        newVector ==
            [k \in DOMAIN vector |->
                IF k = "alinhamentoPAC" THEN Clamp(vector[k])
                ELSE DimensionState(Clamp(nudged(k).coerencia),
                                    Clamp(nudged(k).dissonancia))]
    IN  [newVector |-> newVector, pointsGained |-> rule.points]

(***************************************************************************)
(* Persistence: zustand's persist middleware writes partialize(state)      *)
(* through safeLocalStorage.setItem after every set().                     *)
(***************************************************************************)
\* partialize (src/types.ts 1211-1225); fontSize and isListeningModeActive
\* are not part of the model.
Persisted ==
    [coherenceVector       |-> coherenceVector,
     chatHistories         |-> chatHistories,
     toolStates            |-> toolStates,
     schedules             |-> schedules,
     completedTours        |-> completedTours,
     activityLog           |-> activityLog,
     coherencePoints       |-> coherencePoints,
     coherenceStreak       |-> coherenceStreak,
     lastActivityTimestamp |-> lastActivityTimestamp,
     activeQuest           |-> activeQuest,
     completedQuests       |-> completedQuests]

\* The keys outside partialize that a stored blob may nevertheless carry
\* (a blob written by another build, or edited): absent keys are modelled
\* by the values of the initial state, which is what the merge leaves.
NoExtra ==
    [ucs                 |-> calculateUcs(initialVector),
     recommendation      |-> getPicRecommendation(initialVector).agentId,
     recommendationName  |-> getPicRecommendation(initialVector).dimensionName,
     currentSession      |-> NoSession,
     isLoadingMessage    |-> FALSE,
     isVoiceNavOpen      |-> FALSE,
     pendingSession      |-> NoSession,
     isLoadingQuest      |-> FALSE,
     evolutionSummary    |-> Null,
     isLoadingEvolution  |-> FALSE]

NoBlob == [present |-> FALSE]
Blob(state) == [present |-> TRUE, state |-> state, extra |-> NoExtra]

\* A key whose text JSON.parse rejects (src/types.ts 427).
Unparsable == [present |-> TRUE, garbled |-> TRUE]
Parsable(blob) == blob.present /\ "state" \in DOMAIN blob

\* pruneArray (src/types.ts 430-437): an array longer than 10 loses its
\* last ceil(length * 0.2) elements (ceil(n * 0.2) = ceil(n / 5) as doubles
\* for every n up to LogCap).
PruneThreshold == 10
PruneArray(arr) ==
    IF Len(arr) > PruneThreshold
    THEN SubSeq(arr, 1, Len(arr) - ((Len(arr) + 4) \div 5))
    ELSE arr

\* The stored blob after the three pruneArray calls (src/types.ts 440-446).
PruneBlob(blob) ==
    [blob EXCEPT
        !.state.activityLog = PruneArray(@),
        !.state.toolStates.therapeuticJournal.history = PruneArray(@),
        !.state.toolStates.verbalFrequencyAnalysis.history = PruneArray(@)]

\* localStorage.setItem(name, text) (src/types.ts 420, 451, 452) throws
\* QuotaExceededError when the text does not fit the room the origin has
\* left for the key.  The room is the environment's (other keys, other
\* tabs); it is the same for every call one handler makes.  A blob is
\* measured by its lists the recovery knows of.
BlobSize(blob) ==
    IF Parsable(blob)
    THEN 1 + Len(blob.state.activityLog)
           + Len(blob.state.toolStates.therapeuticJournal.history)
           + Len(blob.state.toolStates.verbalFrequencyAnalysis.history)
    ELSE 0

Fits(blob, room) == BlobSize(blob) <= room

NoThrow == 1000     \* room enough for every blob of the model

\* safeLocalStorage.setItem (src/types.ts 418-462): the content of the key
\* after the call.
SetItem(stored, value, room) ==
    IF Fits(value, room) THEN value
    ELSE IF ~stored.present THEN stored          \* getItem returned null
    ELSE IF ~Parsable(stored) THEN stored        \* JSON.parse threw: cleanupError
    ELSE LET prunedState == PruneBlob(stored)
         IN  IF prunedState = stored THEN stored \* stateModified stayed false
             ELSE IF ~Fits(prunedState, room) THEN stored   \* cleanupError
             ELSE IF ~Fits(value, room) THEN prunedState    \* cleanupError
             ELSE value

\* Whether a localStorage.setItem call of that safeLocalStorage.setItem
\* returned without throwing.
SetItemWrote(stored, value, room) ==
    \/ Fits(value, room)
    \/ /\ Parsable(stored)
       /\ PruneBlob(stored) # stored
       /\ Fits(PruneBlob(stored), room)

\* The steps of one safeLocalStorage.setItem call that throw: the first
\* localStorage.setItem (line 420), JSON.parse of the stored text (427), the
\* write of the pruned blob (451), the retry of the value (452).  A throw
\* ends the try block it is in, so at most one later step throws.
ThrownAt(stored, value, room) ==
    IF Fits(value, room) THEN {}
    ELSE {"first"} \cup
         (IF ~stored.present THEN {}
          ELSE IF ~Parsable(stored) THEN {"parse"}
          ELSE IF PruneBlob(stored) = stored THEN {}
          ELSE IF ~Fits(PruneBlob(stored), room) THEN {"pruned"}
          ELSE {"retry"})

\* The steps that run inside a try whose catch returns normally: the outer
\* try of lines 419-421 and the inner one of lines 424-455.
GuardedOuterOnly == {"first"}

GuardedSteps == {"first", "parse", "pruned", "retry"}

\* Whether the call raises to its caller.
SetItemRaises(stored, value, room) ==
    ThrownAt(stored, value, room) \ GuardedSteps # {}

(***************************************************************************)
(* Initial state of the store (src/types.ts 561-610), persisted once by    *)
(* the hydration that runs at construction.                                *)
(***************************************************************************)
InitStoreWith(vector) ==
    /\ coherenceVector = vector
    /\ ucs = calculateUcs(vector)
    /\ recommendation = getPicRecommendation(vector).agentId
    /\ recommendationName = getPicRecommendation(vector).dimensionName
    /\ currentSession = NoSession
    /\ lastAgentContext = Null
    /\ chatHistories = [a \in ChatAgents |-> <<>>]
    /\ isLoadingMessage = FALSE
    /\ toolStates = initialToolStates
    /\ toasts = <<>>
    /\ schedules = <<>>
    /\ guideState = initialGuideState
    /\ completedTours = <<>>
    /\ activityLog = <<>>
    /\ isVoiceNavOpen = FALSE
    /\ reconnectionAgentId = Null
    /\ proactiveNavContext = NoContext
    /\ pendingSession = NoSession
    /\ coherencePoints = 0
    /\ coherenceStreak = 0
    /\ lastActivityTimestamp = NoTimestamp
    /\ activeQuest = NoQuest
    /\ completedQuests = <<>>
    /\ isLoadingQuest = FALSE
    /\ evolutionSummary = Null
    /\ isLoadingEvolution = FALSE
    /\ doshaChat = Null

InitEnv ==
    /\ fetches = {}
    /\ now = 1
    /\ nLogged = 0
    /\ nFetches = 0
    /\ lastOp = [op |-> "init", threw |-> FALSE, wrote |-> TRUE, stale |-> FALSE]

Init ==
    /\ InitStoreWith(initialVector)
    /\ InitEnv
    /\ storage = Blob(Persisted)

\* The write that follows a set(): the key's new content, and the record
\* of which handler ran.
\* threw: the first localStorage.setItem threw; wrote: one of the calls
\* returned; stale: the blob read held keys outside partialize.
PersistFrom(op, q, stale) ==
    /\ storage' = SetItem(storage, Blob(Persisted'), q)
    /\ lastOp' = [op    |-> op,
                  threw |-> ~Fits(Blob(Persisted'), q),
                  wrote |-> SetItemWrote(storage, Blob(Persisted'), q),
                  stale |-> stale]

Persist(op, q) == PersistFrom(op, q, FALSE)

(***************************************************************************)
(* setCoherenceVector (src/types.ts 1048-1057).                            *)
(***************************************************************************)
SetCoherenceVector(newVector, q) ==
    /\ coherenceVector' = newVector
    /\ ucs' = calculateUcs(newVector)
    /\ recommendation' = getPicRecommendation(newVector).agentId
    /\ recommendationName' = getPicRecommendation(newVector).dimensionName
    /\ UNCHANGED <<sessionVars, gameVars, loadVars, guideVars, toolStates,
                   toasts, schedules, activityLog, fetches, now, nLogged,
                   nFetches>>
    /\ Persist("setCoherenceVector", q)

(***************************************************************************)
(* logActivity (src/types.ts 1114-1159).                                   *)
(***************************************************************************)
\* toDateString() of two timestamps is equal exactly when they fall on the
\* same local calendar day; 2 * 24 * 60 * 60 * 1000 ms is two days.
DayOf(t) == t \div TicksPerDay
TwoDays  == 2 * TicksPerDay

\* The entry built at lines 1122-1127 from the orchestrator's result; seq
\* numbers the logActivity calls and is not a field of the program's entry.
NewLogEntryBefore(entryData, orchestrated) ==
    [id             |-> now,
     seq            |-> nLogged + 1,
     timestamp      |-> now,
     agentId        |-> entryData.agentId,
     type           |-> entryData.type,
     toolId         |-> entryData.toolId,
     messages       |-> entryData.messages,
     vectorSnapshot |-> coherenceVector]

NewLogEntry(entryData, orchestrated) ==
    [id             |-> now,
     seq            |-> nLogged + 1,
     timestamp      |-> now,
     agentId        |-> entryData.agentId,
     type           |-> entryData.type,
     toolId         |-> entryData.toolId,
     messages       |-> entryData.messages,
     vectorSnapshot |-> orchestrated.newVector]

\* unshift, then "if (length > 100) length = 100" (lines 1129-1130).
UnshiftAndCutTail(log, entry) ==
    LET grown == <<entry>> \o log
    IN  IF Len(grown) > LogCap THEN SubSeq(grown, 2, Len(grown)) ELSE grown

UnshiftAndCut(log, entry) ==
    LET grown == <<entry>> \o log
    IN  IF Len(grown) > LogCap THEN SubSeq(grown, 1, LogCap) ELSE grown

\* A streak that counts every activity within two days, whatever the day.
NextStreakByGapOnly(streak, last, t) ==
    IF last # NoTimestamp /\ (t - last) < TwoDays THEN streak + 1 ELSE 1

\* Lines 1148-1156.
NextStreak(streak, last, t) ==
    IF last = NoTimestamp \/ DayOf(last) # DayOf(t)
    THEN IF last # NoTimestamp /\ (t - last) < TwoDays
         THEN streak + 1
         ELSE 1
    ELSE streak

ToolUsage(agentId, toolId) ==
    [type |-> "tool_usage", agentId |-> agentId, toolId |-> toolId,
     messages |-> <<>>]

ChatSession(agentId, messages) ==
    [type |-> "chat_session", agentId |-> agentId, toolId |-> "none",
     messages |-> messages]

\* addToast (lines 971-975), on the list.
AddToast(list, message, type) ==
    Append(list, [id |-> now, message |-> message, type |-> type])

\* The condition of line 1140.  entryData.data.toolId is undefined for a
\* chat_session entry and never equals a targetTool.
QuestCompletedByAny(quest, entryData) ==
    /\ quest # NoQuest
    /\ ~quest.isCompleted

QuestCompletedBy(quest, entryData) ==
    /\ quest # NoQuest
    /\ ~quest.isCompleted
    /\ entryData.type = "tool_usage"
    /\ quest.targetTool = entryData.toolId

\* The store fields logActivity's update writes.  The addToast call of line
\* 1143 runs its own set() while the enclosing set(produce(...)) is still
\* computing: the enclosing update then assigns every key from the draft's
\* base, toasts included, so the list is the one from before the call.
LogActivityUpdate(entryData) ==
    LET orchestrated == orchestrate(entryData, coherenceVector)
        newVector    == orchestrated.newVector
        questDone    == QuestCompletedBy(activeQuest, entryData)
    IN  /\ activityLog' = UnshiftAndCut(activityLog, NewLogEntry(entryData, orchestrated))
        /\ coherenceVector' = newVector
        /\ coherencePoints' = coherencePoints + orchestrated.pointsGained
        /\ ucs' = calculateUcs(newVector)
        /\ recommendation' = getPicRecommendation(newVector).agentId
        /\ recommendationName' = getPicRecommendation(newVector).dimensionName
        /\ IF questDone
           THEN /\ completedQuests' =
                     <<[activeQuest EXCEPT !.isCompleted = TRUE,
                                           !.completionTimestamp = now]>>
                     \o completedQuests
                /\ activeQuest' = NoQuest
           ELSE UNCHANGED <<activeQuest, completedQuests>>
        /\ coherenceStreak' = NextStreak(coherenceStreak, lastActivityTimestamp, now)
        /\ lastActivityTimestamp' = now
        /\ nLogged' = nLogged + 1

\* A key after set(produce(recipe)) whose recipe called another set() on
\* it (line 1143 inside line 1116): the store assigns the recipe's result
\* over the current state key by key, and the result holds, for a key the
\* recipe did not write, the value of the state the recipe was given.
EnclosingSetWins(storedByNestedSet, givenToRecipe) == givenToRecipe

\* toasts after logActivity.
ToastsAfterLog(entryData) ==
    EnclosingSetWins(
        IF QuestCompletedBy(activeQuest, entryData)
        THEN AddToast(toasts, "quest completed", "success")
        ELSE toasts,
        toasts)

LogActivity(entryData, q) ==
    /\ LogActivityUpdate(entryData)
    /\ toasts' = ToastsAfterLog(entryData)
    /\ UNCHANGED <<sessionVars, loadVars, guideVars, toolStates,
                   schedules, fetches, now, nFetches>>
    /\ Persist("logActivity", q)

(***************************************************************************)
(* Rehydration (a page load): persist merges the stored blob over the      *)
(* initial state, {...initial, ...stored}, sets it, writes it back, and    *)
(* runs the onRehydrateStorage callback (src/types.ts 1226-1241) on the    *)
(* state object.  Requests in flight belong to the page that was left.     *)
(***************************************************************************)
initialPersisted ==
    [coherenceVector       |-> initialVector,
     chatHistories         |-> [a \in ChatAgents |-> <<>>],
     toolStates            |-> initialToolStates,
     schedules             |-> <<>>,
     completedTours        |-> <<>>,
     activityLog           |-> <<>>,
     coherencePoints       |-> 0,
     coherenceStreak       |-> 0,
     lastActivityTimestamp |-> NoTimestamp,
     activeQuest           |-> NoQuest,
     completedQuests       |-> <<>>]

\* The callback, on the transient keys (and the vector they derive from).
OnRehydrateKeepSession(vector, merged) ==
    [merged EXCEPT
        !.ucs                = calculateUcs(vector),
        !.recommendation     = getPicRecommendation(vector).agentId,
        !.recommendationName = getPicRecommendation(vector).dimensionName,
        !.isVoiceNavOpen     = FALSE,
        !.pendingSession     = NoSession,
        !.isLoadingQuest     = FALSE,
        !.evolutionSummary   = Null,
        !.isLoadingEvolution = FALSE]

\* The callback without its first four lines: the derived values stay as
\* the merge left them.
OnRehydrateTrustDerived(vector, merged) ==
    [merged EXCEPT
        !.currentSession     = NoSession,
        !.isLoadingMessage   = FALSE,
        !.isVoiceNavOpen     = FALSE,
        !.pendingSession     = NoSession,
        !.isLoadingQuest     = FALSE,
        !.evolutionSummary   = Null,
        !.isLoadingEvolution = FALSE]

OnRehydrateStorage(vector, merged) ==
    [merged EXCEPT
        !.ucs                = calculateUcs(vector),
        !.recommendation     = getPicRecommendation(vector).agentId,
        !.recommendationName = getPicRecommendation(vector).dimensionName,
        !.currentSession     = NoSession,
        !.isLoadingMessage   = FALSE,
        !.isVoiceNavOpen     = FALSE,
        !.pendingSession     = NoSession,
        !.isLoadingQuest     = FALSE,
        !.evolutionSummary   = Null,
        !.isLoadingEvolution = FALSE]

Rehydrate(q) ==
    LET stored == IF Parsable(storage) THEN storage.state ELSE initialPersisted
        merged == IF Parsable(storage) THEN storage.extra ELSE NoExtra
        after  == OnRehydrateStorage(stored.coherenceVector, merged)
    IN  /\ coherenceVector' = stored.coherenceVector
        /\ chatHistories' = stored.chatHistories
        /\ toolStates' = stored.toolStates
        /\ schedules' = stored.schedules
        /\ completedTours' = stored.completedTours
        /\ activityLog' = stored.activityLog
        /\ coherencePoints' = stored.coherencePoints
        /\ coherenceStreak' = stored.coherenceStreak
        /\ lastActivityTimestamp' = stored.lastActivityTimestamp
        /\ activeQuest' = stored.activeQuest
        /\ completedQuests' = stored.completedQuests
        /\ ucs' = after.ucs
        /\ recommendation' = after.recommendation
        /\ recommendationName' = after.recommendationName
        /\ currentSession' = after.currentSession
        /\ isLoadingMessage' = after.isLoadingMessage
        /\ isVoiceNavOpen' = after.isVoiceNavOpen
        /\ pendingSession' = after.pendingSession
        /\ isLoadingQuest' = after.isLoadingQuest
        /\ evolutionSummary' = after.evolutionSummary
        /\ isLoadingEvolution' = after.isLoadingEvolution
        /\ doshaChat' = Null
        /\ lastAgentContext' = Null
        /\ toasts' = <<>>
        /\ guideState' = initialGuideState
        /\ reconnectionAgentId' = Null
        /\ proactiveNavContext' = NoContext
        /\ fetches' = {}
        /\ UNCHANGED <<now, nLogged, nFetches>>
        /\ IF storage.present /\ ~Parsable(storage)
           THEN \* the read throws: the store keeps its initial state and
                \* nothing is written back
                /\ storage' = storage
                /\ lastOp' = [op |-> "rehydrate", threw |-> FALSE,
                              wrote |-> FALSE, stale |-> FALSE]
           ELSE PersistFrom("rehydrate", q, merged # NoExtra)

\* fetchCoherenceQuest (src/types.ts 1180-1192) up to its await; the
\* request is in flight while isLoadingQuest holds.
FetchCoherenceQuest(q) ==
    /\ ~isLoadingQuest
    /\ activeQuest = NoQuest
    /\ isLoadingQuest' = TRUE
    /\ UNCHANGED <<vectorVars, sessionVars, gameVars, guideVars, toolStates,
                   toasts, schedules, activityLog, isLoadingMessage,
                   evolutionSummary, isLoadingEvolution, doshaChat, fetches,
                   now,
                   nLogged, nFetches>>
    /\ Persist("fetchCoherenceQuest", q)

\* Line 1187: generateCoherenceQuest resolved.
QuestResolved(quest, q) ==
    /\ isLoadingQuest
    /\ activeQuest' = quest
    /\ isLoadingQuest' = FALSE
    /\ UNCHANGED <<vectorVars, sessionVars, guideVars, toolStates, toasts,
                   schedules, activityLog, coherencePoints, coherenceStreak,
                   lastActivityTimestamp, completedQuests, isLoadingMessage,
                   evolutionSummary, isLoadingEvolution, doshaChat, fetches,
                   now,
                   nLogged, nFetches>>
    /\ Persist("questResolved", q)

\* Lines 1188-1191: it failed.
QuestFailed(q) ==
    /\ isLoadingQuest
    /\ isLoadingQuest' = FALSE
    /\ UNCHANGED <<vectorVars, sessionVars, gameVars, guideVars, toolStates,
                   toasts, schedules, activityLog, isLoadingMessage,
                   evolutionSummary, isLoadingEvolution, doshaChat, fetches,
                   now,
                   nLogged, nFetches>>
    /\ Persist("questFailed", q)

\* The clock, up to a last tick.
Advance(last) ==
    /\ now < last
    /\ now' = now + 1
    /\ lastOp' = [op |-> "tick", threw |-> FALSE, wrote |-> FALSE, stale |-> FALSE]
    /\ UNCHANGED <<vectorVars, sessionVars, gameVars, loadVars, guideVars,
                   toolStates, toasts, schedules, activityLog, storage,
                   fetches, nLogged, nFetches>>

Tick == Advance(MaxTime)

(***************************************************************************)
(* Sessions (src/types.ts 617-749).  A session is the record               *)
(* {type, id, mode, origin, autoStart, schedule}; a field the variant does *)
(* not have, or that is undefined, is Null.                                *)
(***************************************************************************)
AgentSession(id, autoStart) ==
    [type |-> "agent", id |-> id, mode |-> Null, origin |-> Null,
     autoStart |-> autoStart, schedule |-> Null]

ToolSession(type) ==
    [type |-> type, id |-> Null, mode |-> Null, origin |-> Null,
     autoStart |-> FALSE, schedule |-> Null]

HandlerSession(scheduleId) ==
    [type |-> "scheduled_session_handler", id |-> Null, mode |-> Null,
     origin |-> Null, autoStart |-> FALSE, schedule |-> scheduleId]

\* AGENTS[agentId].initialMessage (./constants.tsx, absent from the
\* sources): every mentor has a greeting, as section 4.4 of the
\* specification says of startSession.
HasInitialMessage(agentId) == TRUE

\* addInitialMessage (lines 736-749), on the histories.
AddInitialMessage(histories, agentId) ==
    IF HasInitialMessage(agentId) /\ Len(histories[agentId]) = 0
    THEN [histories EXCEPT ![agentId] = <<"greeting">>]
    ELSE histories

\* startSession (lines 617-636) for the session variants of the model;
\* dosh_diagnosis and routine_aligner, which also start a chat, are not
\* among them.
StartSessionUpdate(session, origin) ==
    /\ reconnectionAgentId' = Null
    /\ proactiveNavContext' = NoContext
    /\ IF session.type = "agent"
       THEN /\ currentSession' =
                  [session EXCEPT !.mode = IF session.autoStart THEN "voice" ELSE Null,
                                  !.origin = origin]
            /\ lastAgentContext' = session.id
            /\ chatHistories' = AddInitialMessage(chatHistories, session.id)
       ELSE /\ currentSession' = [session EXCEPT !.origin = origin]
            /\ UNCHANGED <<lastAgentContext, chatHistories>>

StartSession(session, origin, q) ==
    /\ StartSessionUpdate(session, origin)
    /\ UNCHANGED <<vectorVars, gameVars, loadVars, guideVars, toolStates,
                   toasts, schedules, activityLog, isVoiceNavOpen,
                   pendingSession, fetches, now, nLogged, nFetches>>
    /\ Persist("startSession", q)

\* setPendingSession (line 638).
SetPendingSession(session, q) ==
    /\ pendingSession' = session
    /\ UNCHANGED <<vectorVars, gameVars, loadVars, guideVars, toolStates,
                   toasts, schedules, activityLog, currentSession,
                   lastAgentContext, chatHistories, isVoiceNavOpen,
                   reconnectionAgentId, proactiveNavContext, fetches, now,
                   nLogged, nFetches>>
    /\ Persist("setPendingSession", q)

\* The effect of src/App.tsx 123-130: the navigator has closed and left a
\* pending session.
PendingSessionEffect(q) ==
    /\ ~isVoiceNavOpen
    /\ pendingSession # NoSession
    /\ StartSessionUpdate(pendingSession, "voice")
    /\ pendingSession' = NoSession
    /\ UNCHANGED <<vectorVars, gameVars, loadVars, guideVars, toolStates,
                   toasts, schedules, activityLog, isVoiceNavOpen, fetches,
                   now, nLogged, nFetches>>
    /\ Persist("pendingSessionEffect", q)

\* switchAgentMode (lines 719-723).
SwitchAgentMode(mode, q) ==
    /\ currentSession' = IF currentSession.type = "agent"
                         THEN [currentSession EXCEPT !.mode = mode]
                         ELSE currentSession
    /\ UNCHANGED <<vectorVars, gameVars, loadVars, guideVars, toolStates,
                   toasts, schedules, activityLog, lastAgentContext,
                   chatHistories, isVoiceNavOpen, reconnectionAgentId,
                   proactiveNavContext, pendingSession, fetches, now,
                   nLogged, nFetches>>
    /\ Persist("switchAgentMode", q)

\* addMessagesToHistory (lines 731-734).
AddMessagesToHistory(agentId, messages, q) ==
    /\ chatHistories' = [chatHistories EXCEPT ![agentId] = @ \o messages]
    /\ UNCHANGED <<vectorVars, gameVars, loadVars, guideVars, toolStates,
                   toasts, schedules, activityLog, currentSession,
                   lastAgentContext, isVoiceNavOpen, reconnectionAgentId,
                   proactiveNavContext, pendingSession, fetches, now,
                   nLogged, nFetches>>
    /\ Persist("addMessagesToHistory", q)

\* Line 646 without its second conjunct.
ShouldOpenVoiceNavAnyVoice(session) == session.origin = "voice"

\* Line 646.
ShouldOpenVoiceNav(session) ==
    session.origin = "voice" /\ ~(session.type = "agent" /\ session.mode = "text")

\* Line 681 (and 700): "history && history.length > 1".
ShouldArchiveAny(history) == Len(history) > 0

ShouldArchive(history) == Len(history) > 1

\* endSession (lines 640-691) up to its first await.  With no session it
\* returns at line 642.  On the voice path a summary is awaited for a tool
\* result, or for the transcript of a voice chat left by hand; otherwise the
\* closing line is set in the same turn.
EndSession(isManualExit, hasToolResult, q) ==
    LET session == currentSession
        history == chatHistories[session.id]
        awaitsTool == session.type # "agent" /\ hasToolResult
        voiceChatLeft == /\ ~awaitsTool
                         /\ session.type = "agent"
                         /\ session.mode = "voice"
                         /\ isManualExit
        awaitsChat == voiceChatLeft /\ Len(history) > 0
    IN  IF session = NoSession
        THEN /\ UNCHANGED <<storeVars, storage, fetches, now, nLogged,
                            nFetches>>
             /\ lastOp' = [op |-> "endSession", threw |-> FALSE,
                           wrote |-> FALSE, stale |-> FALSE]
        ELSE /\ IF ShouldOpenVoiceNav(session)
                THEN /\ currentSession' = NoSession
                     /\ isVoiceNavOpen' = TRUE
                     /\ IF awaitsTool \/ awaitsChat
                        THEN /\ proactiveNavContext' = Loading
                             /\ fetches' = fetches \cup
                                    {[id |-> nFetches + 1, navClosed |-> FALSE]}
                             /\ nFetches' = nFetches + 1
                        ELSE /\ proactiveNavContext' =
                                    IF voiceChatLeft THEN WhatNextLine
                                    ELSE ClosingLine
                             /\ UNCHANGED <<fetches, nFetches>>
                     /\ UNCHANGED <<vectorVars, gameVars, activityLog, nLogged,
                                    reconnectionAgentId>>
                ELSE /\ IF session.type = "agent" /\ ShouldArchive(history)
                        THEN LogActivityUpdate(ChatSession(session.id, history))
                        ELSE UNCHANGED <<vectorVars, gameVars, activityLog,
                                         nLogged>>
                     /\ currentSession' = NoSession
                     /\ reconnectionAgentId' = Null
                     /\ proactiveNavContext' = NoContext
                     /\ UNCHANGED <<isVoiceNavOpen, fetches, nFetches>>
             /\ UNCHANGED <<loadVars, guideVars, toolStates, toasts, schedules,
                            lastAgentContext, chatHistories, pendingSession,
                            now>>
             /\ Persist("endSession", q)

\* The continuation of endSession after its await (lines 665-667): the
\* summary arrived.
SummaryResolved(fetch, q) ==
    /\ fetch \in fetches
    /\ fetches' = fetches \ {fetch}
    /\ proactiveNavContext' =
           IF isVoiceNavOpen THEN SummaryOf(fetch) ELSE proactiveNavContext
    /\ UNCHANGED <<vectorVars, gameVars, loadVars, guideVars, toolStates,
                   toasts, schedules, activityLog, currentSession,
                   lastAgentContext, chatHistories, isVoiceNavOpen,
                   reconnectionAgentId, pendingSession, now, nLogged, nFetches>>
    /\ Persist("summaryResolved", q)

\* A catch block that writes nothing.
ContextKeptOnFailure(navOpen, context) == context

\* Lines 670-672.
ContextAfterFailure(navOpen, context) ==
    IF navOpen THEN NoContext ELSE context

\* The catch of lines 668-673: the summary failed.
SummaryFailed(fetch, q) ==
    /\ fetch \in fetches
    /\ fetches' = fetches \ {fetch}
    /\ proactiveNavContext' =
           ContextAfterFailure(isVoiceNavOpen, proactiveNavContext)
    /\ UNCHANGED <<vectorVars, gameVars, loadVars, guideVars, toolStates,
                   toasts, schedules, activityLog, currentSession,
                   lastAgentContext, chatHistories, isVoiceNavOpen,
                   reconnectionAgentId, pendingSession, now, nLogged, nFetches>>
    /\ Persist("summaryFailed", q)

\* openVoiceNav (line 1161).
OpenVoiceNav(q) ==
    /\ isVoiceNavOpen' = TRUE
    /\ UNCHANGED <<vectorVars, gameVars, loadVars, guideVars, toolStates,
                   toasts, schedules, activityLog, currentSession,
                   lastAgentContext, chatHistories, reconnectionAgentId,
                   proactiveNavContext, pendingSession, fetches, now,
                   nLogged, nFetches>>
    /\ Persist("openVoiceNav", q)

\* closeVoiceNav (line 1163); every request in flight has now seen the
\* navigator closed.
CloseVoiceNav(q) ==
    /\ isVoiceNavOpen' = FALSE
    /\ reconnectionAgentId' = Null
    /\ proactiveNavContext' = NoContext
    /\ fetches' = {[f EXCEPT !.navClosed = TRUE] : f \in fetches}
    /\ UNCHANGED <<vectorVars, gameVars, loadVars, guideVars, toolStates,
                   toasts, schedules, activityLog, currentSession,
                   lastAgentContext, chatHistories, pendingSession, now,
                   nLogged, nFetches>>
    /\ Persist("closeVoiceNav", q)

\* handleConnectionDrop (lines 1167-1178).
HandleConnectionDrop(agentId, droppedTranscript, q) ==
    /\ chatHistories' = [chatHistories EXCEPT ![agentId] = droppedTranscript]
    /\ reconnectionAgentId' = agentId
    /\ currentSession' = NoSession
    /\ toasts' = AddToast(toasts, "connection dropped", "error")
    /\ isVoiceNavOpen' = TRUE
    /\ UNCHANGED <<vectorVars, gameVars, loadVars, guideVars, toolStates,
                   schedules, activityLog, lastAgentContext,
                   proactiveNavContext, pendingSession, fetches, now,
                   nLogged, nFetches>>
    /\ Persist("handleConnectionDrop", q)

\* removeToast (lines 977-979).
RemoveToast(id, q) ==
    /\ toasts' = SelectSeq(toasts, LAMBDA t : t.id # id)
    /\ UNCHANGED <<vectorVars, sessionVars, gameVars, loadVars, guideVars,
                   toolStates, schedules, activityLog, fetches, now, nLogged,
                   nFetches>>
    /\ Persist("removeToast", q)

(***************************************************************************)
(* Schedules (src/types.ts 981-1046) and the poller of src/App.tsx 96-114. *)
(* A timestamp is a tick; a calendar day is TicksPerDay ticks, and tick 0  *)
(* falls on a Thursday as 1970-01-01 does.  setDate(getDate() + k) is k    *)
(* whole days later (no daylight-saving shift).                            *)
(***************************************************************************)
EpochWeekday == 4
DaysPerWeek == 7
WeekdayOf(t) == (DayOf(t) + EpochWeekday) % DaysPerWeek

SetMin(S) == CHOOSE x \in S : \A y \in S : x <= y

\* Lines 1021-1031 with a wrap that stops at the end of the week.
DaysToAddToWeekEnd(recurrenceDays, currentDay) ==
    LET later == {d \in recurrenceDays : d > currentDay}
    IN  IF later # {} THEN SetMin(later) - currentDay
        ELSE DaysPerWeek - currentDay

\* Lines 1021-1031: the days to the next listed weekday after currentDay,
\* wrapping to the first listed day of the following week.
DaysToAdd(recurrenceDays, currentDay) ==
    LET later == {d \in recurrenceDays : d > currentDay}
    IN  IF later # {} THEN SetMin(later) - currentDay
        ELSE (DaysPerWeek - currentDay) + SetMin(recurrenceDays)

\* The while loop of lines 1034-1042, for daily and weekly schedules.
RECURSIVE CatchUp(_, _, _)
CatchUp(nextTime, step, t) ==
    IF nextTime <= t THEN CatchUp(nextTime + step, step, t) ELSE nextTime

\* Lines 1007-1044 on one schedule, at time t.
CompleteScheduleNoCatchUp(schedule, t) ==
    IF schedule.recurrence = "none"
    THEN [schedule EXCEPT !.status = "completed"]
    ELSE IF schedule.recurrence = "daily"
    THEN [schedule EXCEPT !.time = schedule.time + TicksPerDay]
    ELSE IF schedule.recurrence = "weekly"
    THEN [schedule EXCEPT !.time = schedule.time + DaysPerWeek * TicksPerDay]
    ELSE IF schedule.recurrence = "custom" /\ schedule.recurrenceDays # {}
    THEN [schedule EXCEPT !.time =
              schedule.time
              + DaysToAdd(schedule.recurrenceDays, WeekdayOf(schedule.time))
                * TicksPerDay]
    ELSE schedule

CompleteSchedule(schedule, t) ==
    IF schedule.recurrence = "none"
    THEN [schedule EXCEPT !.status = "completed"]
    ELSE IF schedule.recurrence = "daily"
    THEN [schedule EXCEPT !.time = CatchUp(schedule.time + TicksPerDay, TicksPerDay, t)]
    ELSE IF schedule.recurrence = "weekly"
    THEN [schedule EXCEPT !.time =
              CatchUp(schedule.time + DaysPerWeek * TicksPerDay,
                      DaysPerWeek * TicksPerDay, t)]
    ELSE IF schedule.recurrence = "custom" /\ schedule.recurrenceDays # {}
    THEN [schedule EXCEPT !.time =
              schedule.time
              + DaysToAdd(schedule.recurrenceDays, WeekdayOf(schedule.time))
                * TicksPerDay]
    ELSE schedule

\* schedules.find(s => s.id === scheduleId): the first match, 0 if none.
FindSchedule(list, scheduleId) ==
    LET hits == {k \in 1..Len(list) : list[k].id = scheduleId}
    IN  IF hits = {} THEN 0 ELSE SetMin(hits)

\* handleScheduleCompletion (lines 1002-1046), on the list.
CompleteInList(list, scheduleId, t) ==
    LET k == FindSchedule(list, scheduleId)
    IN  IF k = 0 THEN list
        ELSE [list EXCEPT ![k] = CompleteSchedule(list[k], t)]

HandleScheduleCompletion(scheduleId, q) ==
    /\ schedules' = CompleteInList(schedules, scheduleId, now)
    /\ UNCHANGED <<vectorVars, sessionVars, gameVars, loadVars, guideVars,
                   toolStates, toasts, activityLog, fetches, now, nLogged,
                   nFetches>>
    /\ Persist("handleScheduleCompletion", q)

\* addSchedule (lines 981-1000): the push, the logActivity call and the
\* toast, three updates in a row.
AddSchedule(schedule, q) ==
    LET newSchedule == [id             |-> now,
                        activity       |-> schedule.activity,
                        time           |-> schedule.time,
                        status         |-> "scheduled",
                        recurrence     |-> schedule.recurrence,
                        recurrenceDays |-> schedule.recurrenceDays]
        agentIdForContext == IF lastAgentContext = Null THEN "self_knowledge"
                             ELSE lastAgentContext
    IN  /\ schedules' = Append(schedules, newSchedule)
        /\ LogActivityUpdate(ToolUsage(agentIdForContext, "scheduled_session"))
        /\ toasts' = AddToast(ToastsAfterLog(
                                   ToolUsage(agentIdForContext, "scheduled_session")),
                               "schedule saved", "success")
        /\ UNCHANGED <<sessionVars, loadVars, guideVars, toolStates, fetches,
                       now, nFetches>>
        /\ Persist("addSchedule", q)

\* The first schedule that is due: status 'scheduled' and time <= now.
DueSchedule(list, t) ==
    LET due == {k \in 1..Len(list) :
                    list[k].status = "scheduled" /\ list[k].time <= t}
    IN  IF due = {} THEN 0 ELSE SetMin(due)

\* A tick that reads only the schedules.
PollerSkipsNothingDue(session, k) == k = 0

\* The two early exits of the interval callback of src/App.tsx 97-111:
\* `if (currentSession) return;` and a find() that returns undefined.
PollerSkips(session, k) == session # NoSession \/ k = 0

\* One run of the interval callback of src/App.tsx 97-111.  A run that
\* takes an early exit calls nothing; a run that finds a due schedule adds
\* the toast and calls startSession(handler, 'voice') and
\* handleScheduleCompletion.
PollSchedules(q) ==
    LET k == DueSchedule(schedules, now)
    IN  IF PollerSkips(currentSession, k)
        THEN /\ UNCHANGED <<storeVars, storage, fetches, now, nLogged,
                            nFetches>>
             /\ lastOp' = [op |-> "pollSkipped", threw |-> FALSE,
                           wrote |-> FALSE, stale |-> FALSE]
        ELSE
        /\ toasts' = AddToast(toasts, "mentor calling", "info")
        /\ StartSessionUpdate(HandlerSession(schedules[k].id), "voice")
        /\ schedules' = CompleteInList(schedules, schedules[k].id, now)
        /\ UNCHANGED <<vectorVars, gameVars, loadVars, guideVars, toolStates,
                       activityLog, isVoiceNavOpen, pendingSession, fetches,
                       now, nLogged, nFetches>>
        /\ storage' = SetItem(storage, Blob(Persisted'), q)
        /\ lastOp' = [op    |-> "pollSchedules",
                      threw |-> ~Fits(Blob(Persisted'), q),
                      wrote |-> SetItemWrote(storage, Blob(Persisted'), q),
                      stale |-> FALSE,
                      was   |-> schedules[k]]   \* the schedule found due

(***************************************************************************)
(* Spec: the vector, the log and a reload.  The analysis results are what  *)
(* the generative service returns to WellnessVisualizer                    *)
(* (src/unnamed/part_002 26-28), which passes the vector on unchecked.     *)
(***************************************************************************)
VecHigh       == UniformVector(100, 0, 100)
VecOutOfRange == [VecBalanced EXCEPT !.mental = DimensionState(120, -5)]
AnalysisResults == {VecBalanced, VecHigh, VecOutOfRange}

LoggedTools == {"meditation", "new_tool"}

Analyze ==
    \E v \in AnalysisResults : SetCoherenceVector(v, NoThrow)

UseTool ==
    /\ nLogged < MaxLogged
    /\ \E t \in LoggedTools : LogActivity(ToolUsage("health", t), NoThrow)

Reload == Rehydrate(NoThrow)

Next == Analyze \/ UseTool \/ Reload

Spec == Init /\ [][Next]_vars

\* C1: in every reachable state alinhamentoPAC and the coerencia and
\* dissonancia of each of the seven dimensions lie in 0..100.
Cex_C1_VectorInRange == ValidVector(coherenceVector)

\* C5: right after a logActivity call the vectorSnapshot of the entry at the
\* head of activityLog is the store's coherenceVector, the vector after the
\* activity.
Thm_C5_SnapshotIsPostVector ==
    lastOp.op = "logActivity" =>
        /\ activityLog # <<>>
        /\ Head(activityLog).vectorSnapshot = coherenceVector

Wit_C5_SnapshotAfterNudge ==
    /\ lastOp.op = "logActivity"
    /\ Len(activityLog) >= 2
    /\ Head(activityLog).toolId = "meditation"
    /\ Head(activityLog).vectorSnapshot = coherenceVector
    /\ Head(activityLog).vectorSnapshot # activityLog[2].vectorSnapshot

(***************************************************************************)
(* SpecLog: activities logged past the cap.  The first MaxLogged calls     *)
(* log any of the tools, the later ones a meditation.                      *)
(***************************************************************************)
LogLong ==
    /\ nLogged < MaxLoggedLong
    /\ \E t \in (IF nLogged < MaxLogged THEN LoggedTools ELSE {"meditation"}) :
           LogActivity(ToolUsage("health", t), NoThrow)

NextLog == LogLong

SpecLog == Init /\ [][NextLog]_vars

\* C4: after any sequence of logActivity calls the log holds at most 100
\* entries, newest first, and they are the most recently logged ones.
Thm_C4_LogKeepsNewest ==
    /\ Len(activityLog) = Min(nLogged, 100)
    /\ \A i \in 1..Len(activityLog) : activityLog[i].seq = nLogged - i + 1

Wit_C4_OldestDropped ==
    /\ nLogged > 100
    /\ Len(activityLog) = 100
    /\ activityLog[1].seq = nLogged
    /\ activityLog[100].seq = nLogged - 99

(***************************************************************************)
(* SpecUcs: the two pure functions over a grid of valid vectors.  The      *)
(* store starts on a vector whose seven dimensions are alike and each      *)
(* analysis result replaces one dimension or the PAC alignment; at most    *)
(* MaxChangedDims dimensions differ from the others.                       *)
(***************************************************************************)
Levels    == {0, 50, 100}
PacLevels == {0, 70, 100}

\* Dimensions outside the largest group of equal dimensions.
OddDims(v) ==
    LET same(k) == Cardinality({j \in Dimensions : v[j] = v[k]})
        largest == CHOOSE n \in {same(k) : k \in Dimensions} :
                       \A k \in Dimensions : same(k) <= n
    IN  Cardinality(Dimensions) - largest

InitUcs ==
    /\ \E c \in Levels, d \in Levels, p \in PacLevels :
           InitStoreWith(UniformVector(c, d, p))
    /\ InitEnv
    /\ storage = Blob(Persisted)

AnalyzeDimension ==
    \E k \in Dimensions, c \in Levels, d \in Levels :
        LET newVector == [coherenceVector EXCEPT ![k] = DimensionState(c, d)]
        IN  /\ newVector # coherenceVector
            /\ OddDims(newVector) <= MaxChangedDims
            /\ SetCoherenceVector(newVector, NoThrow)

AnalyzePac ==
    \E p \in PacLevels :
        /\ p # coherenceVector.alinhamentoPAC
        /\ SetCoherenceVector([coherenceVector EXCEPT !.alinhamentoPAC = p], NoThrow)

NextUcs == AnalyzeDimension \/ AnalyzePac

SpecUcs == InitUcs /\ [][NextUcs]_vars

\* C2: for every vector whose fields are in 0..100 calculateUcs returns an
\* integer in 0..100, and the vector with every dimension at 50/50 and
\* alinhamentoPAC 70 scores exactly 50.
Thm_C2_UcsRange ==
    ValidVector(coherenceVector) =>
        /\ calculateUcs(coherenceVector) \in 0..100
        /\ ucs \in 0..100
        /\ (coherenceVector = VecBalanced => calculateUcs(coherenceVector) = 50)

Wit_C2_BalancedScoresFifty ==
    /\ lastOp.op = "setCoherenceVector"
    /\ coherenceVector = VecBalanced
    /\ ucs = 50

\* C3: for every valid vector getPicRecommendation returns the agent and
\* label of the dimension of maximum dissonancia, the earliest such
\* dimension in the order proposito, mental, relacional, emocional,
\* somatico, eticoAcao, recursos when several tie; never the "Geral" default.
Thm_C3_MaxDissonanceFirst ==
    ValidVector(coherenceVector) =>
        LET order == <<"proposito", "mental", "relacional", "emocional",
                       "somatico", "eticoAcao", "recursos">>
            diss(i) == coherenceVector[order[i]].dissonancia
            first == CHOOSE i \in 1..7 :
                        /\ \A j \in 1..7 : diss(j) <= diss(i)
                        /\ \A j \in 1..(i - 1) : diss(j) < diss(i)
            row == CHOOSE r \in {PicTable[n] : n \in 1..Len(PicTable)} :
                        r.key = order[first]
            got == getPicRecommendation(coherenceVector)
        IN  /\ got.agentId = row.agent
            /\ got.dimensionName = row.name
            /\ got.dimensionName # "Geral"
            /\ recommendation = row.agent
            /\ recommendationName = row.name

\* Six later dimensions tie for the maximum and the earliest of them is
\* returned.
Wit_C3_TieEarliestWins ==
    /\ lastOp.op = "setCoherenceVector"
    /\ coherenceVector.proposito.dissonancia < coherenceVector.mental.dissonancia
    /\ \A k \in Dimensions \ {"proposito"} :
          coherenceVector[k].dissonancia = coherenceVector.mental.dissonancia
    /\ recommendation = "self_knowledge"
    /\ recommendationName = "Mental"

(***************************************************************************)
(* SpecSession: the session lifecycle and the voice navigator.  The        *)
(* dashboard and the footer are reachable while no session covers them and *)
(* the navigator is closed (src/App.tsx 222, 253, 267); the navigator      *)
(* queues a pending session and closes; a session view leaves through      *)
(* onExit (src/App.tsx 150).                                               *)
(***************************************************************************)
ManualSessions ==
    {AgentSession(a, FALSE) : a \in ChatAgents} \cup {ToolSession("meditation")}

NavigatorSessions ==
    {AgentSession(a, auto) : a \in ChatAgents, auto \in BOOLEAN}
        \cup {ToolSession("meditation")}

DashboardStart ==
    /\ currentSession = NoSession
    /\ ~isVoiceNavOpen
    /\ \E session \in ManualSessions : StartSession(session, "manual", NoThrow)

FooterOpenNav ==
    /\ currentSession = NoSession
    /\ ~isVoiceNavOpen
    /\ OpenVoiceNav(NoThrow)

NavigatorQueue ==
    /\ isVoiceNavOpen
    /\ pendingSession = NoSession
    /\ \E session \in NavigatorSessions : SetPendingSession(session, NoThrow)

NavigatorClose ==
    /\ isVoiceNavOpen
    /\ CloseVoiceNav(NoThrow)

PendingEffect == PendingSessionEffect(NoThrow)

ChooseMode ==
    /\ currentSession.type = "agent"
    /\ currentSession.mode = Null
    /\ \E mode \in {"voice", "text"} : SwitchAgentMode(mode, NoThrow)

Converse ==
    /\ currentSession.type = "agent"
    /\ currentSession.mode # Null
    /\ Len(chatHistories[currentSession.id]) < MaxHistory
    /\ AddMessagesToHistory(currentSession.id, <<"user">>, NoThrow)

Exit ==
    /\ currentSession # NoSession
    /\ nLogged < MaxArchived
    /\ nFetches < MaxFetches
    /\ \E isManualExit \in BOOLEAN, hasToolResult \in BOOLEAN :
           EndSession(isManualExit, hasToolResult, NoThrow)

SummaryArrives == \E fetch \in fetches : SummaryResolved(fetch, NoThrow)

SummaryFails == \E fetch \in fetches : SummaryFailed(fetch, NoThrow)

ConnectionDrop ==
    /\ currentSession.type = "agent"
    /\ currentSession.mode = "voice"
    /\ Len(toasts) < MaxToasts
    /\ HandleConnectionDrop(currentSession.id,
                            chatHistories[currentSession.id], NoThrow)

DismissToast == \E k \in 1..Len(toasts) : RemoveToast(toasts[k].id, NoThrow)

NextSession ==
    \/ DashboardStart
    \/ FooterOpenNav
    \/ NavigatorQueue
    \/ NavigatorClose
    \/ PendingEffect
    \/ ChooseMode
    \/ Converse
    \/ Exit
    \/ SummaryArrives
    \/ SummaryFails

SpecSession == Init /\ [][NextSession]_vars

\* endSession has just archived the chat of the session it ended: one more
\* entry, at the head of the log, of type chat_session, for that mentor and
\* with that history.
ChatArchived ==
    /\ nLogged' = nLogged + 1
    /\ Len(activityLog') > 0
    /\ Head(activityLog').type = "chat_session"
    /\ Head(activityLog').agentId = currentSession.id
    /\ Head(activityLog').messages = chatHistories[currentSession.id]

NothingArchived ==
    /\ nLogged' = nLogged
    /\ activityLog' = activityLog

\* C6 as stated: endSession on an agent session whose chat history has at
\* least 2 messages creates a chat_session activity entry, and creates none
\* when the history holds exactly 1 message.
Cex_C6_ChatArchivedFromTwoMessages ==
    [][(lastOp'.op = "endSession" /\ currentSession.type = "agent") =>
          /\ Len(chatHistories[currentSession.id]) >= 2 => ChatArchived
          /\ Len(chatHistories[currentSession.id]) = 1 => NothingArchived]_vars

\* C6 amended: endSession on an agent session creates the chat_session
\* entry when the history has at least 2 messages and the session does not
\* hand over to the voice navigator (its origin is not 'voice', or its mode
\* is 'text'); it creates none when the history holds exactly 1 message,
\* and none when the session hands over to the voice navigator.
Thm_C6_ChatArchivedOffVoicePath ==
    [][(lastOp'.op = "endSession" /\ currentSession.type = "agent") =>
          LET toNavigator == /\ currentSession.origin = "voice"
                             /\ currentSession.mode # "text"
              length == Len(chatHistories[currentSession.id])
          IN  /\ (length >= 2 /\ ~toNavigator) => ChatArchived
              /\ (length = 1 \/ toNavigator) => NothingArchived]_vars

\* A chat of two messages was just archived by an endSession that did not
\* open the navigator.
Wit_C6_TwoMessageChatArchived ==
    /\ lastOp.op = "endSession"
    /\ currentSession = NoSession
    /\ ~isVoiceNavOpen
    /\ nLogged = 1
    /\ Head(activityLog).type = "chat_session"
    /\ Len(Head(activityLog).messages) = 2

\* C8 as stated: when the voice navigator is closed after endSession began
\* fetching a proactive summary and before that fetch resolves, the fetched
\* text is discarded: resolving a request that has seen the navigator
\* closed never makes its text the proactiveNavContext.
Cex_C8_ClosedNavDiscardsSummary ==
    [][\A fetch \in fetches :
          (lastOp'.op = "summaryResolved" /\ fetch \notin fetches'
              /\ fetch.navClosed)
          => proactiveNavContext' # SummaryOf(fetch)]_vars

(***************************************************************************)
(* SpecCall: scheduled sessions.  The scheduler view (src/App.tsx 203)     *)
(* adds schedules, the clock advances, the poller starts the handler       *)
(* session of a due schedule, and a live conversation can drop.            *)
(***************************************************************************)
Recurrences ==
    {[recurrence |-> "none",   recurrenceDays |-> {}],
     [recurrence |-> "daily",  recurrenceDays |-> {}],
     [recurrence |-> "weekly", recurrenceDays |-> {}],
     [recurrence |-> "custom", recurrenceDays |-> {}],
     [recurrence |-> "custom", recurrenceDays |-> {1, 4}]}

OpenScheduler ==
    /\ currentSession = NoSession
    /\ ~isVoiceNavOpen
    /\ StartSession(ToolSession("scheduled_session"), "manual", NoThrow)

Schedule ==
    /\ currentSession.type = "scheduled_session"
    /\ Len(schedules) < MaxSchedules
    /\ nLogged < MaxLogged
    /\ Len(toasts) < MaxToasts
    /\ \A k \in 1..Len(schedules) : schedules[k].id # now
    /\ \E r \in Recurrences :
           AddSchedule([activity       |-> "meditation",
                        time           |-> now + 1,
                        recurrence     |-> r.recurrence,
                        recurrenceDays |-> r.recurrenceDays], NoThrow)

Leave ==
    /\ currentSession # NoSession
    /\ nLogged < MaxLogged
    /\ EndSession(TRUE, FALSE, NoThrow)

Poll ==
    /\ Len(toasts) < MaxToasts
    /\ currentSession = NoSession
    /\ DueSchedule(schedules, now) # 0
    /\ PollSchedules(NoThrow)

NextCall ==
    \/ OpenScheduler
    \/ Schedule
    \/ Leave
    \/ FooterOpenNav
    \/ NavigatorClose
    \/ Tick
    \/ Poll
    \/ DashboardStart
    \/ ChooseMode
    \/ ConnectionDrop
    \/ DismissToast

SpecCall == Init /\ [][NextCall]_vars

\* C7 as stated: under any interleaving of startSession, endSession,
\* openVoiceNav, closeVoiceNav, endGuide, handleConnectionDrop and the
\* schedule poller, currentSession is never non-null while the voice
\* navigator is open, except while a pendingSession is queued.
Cex_C7_NoSessionUnderOpenNav ==
    (currentSession # NoSession /\ isVoiceNavOpen) => pendingSession # NoSession

(***************************************************************************)
(* SpecStorage: the log grows while the room left for the key varies, the  *)
(* key may hold a blob written by something other than this build's        *)
(* partialize, and the page is reloaded.                                   *)
(***************************************************************************)
Rooms == {6, NoThrow}

StaleSession ==
    [AgentSession("coherence", FALSE) EXCEPT !.mode = "text", !.origin = "manual"]

\* Transient keys a stored blob may carry.
StaleExtras ==
    {[NoExtra EXCEPT !.isLoadingMessage = TRUE],
     [NoExtra EXCEPT !.currentSession = StaleSession,
                     !.isLoadingMessage = TRUE,
                     !.isVoiceNavOpen = TRUE,
                     !.pendingSession = ToolSession("meditation"),
                     !.isLoadingQuest = TRUE,
                     !.isLoadingEvolution = TRUE,
                     !.ucs = 0]}

\* The key's content is replaced from outside the store.
ForeignBlob ==
    /\ storage.present
    /\ storage.extra = NoExtra
    /\ \E extra \in StaleExtras : storage' = [storage EXCEPT !.extra = extra]
    /\ lastOp' = [op |-> "foreignBlob", threw |-> FALSE, wrote |-> TRUE,
                  stale |-> FALSE]
    /\ UNCHANGED <<vectorVars, sessionVars, gameVars, loadVars, guideVars,
                   toolStates, toasts, schedules, activityLog, fetches, now,
                   nLogged, nFetches>>

LogStored ==
    /\ nLogged < MaxStored
    /\ \E room \in Rooms : LogActivity(ToolUsage("coherence", "meditation"), room)

ReloadStored == \E room \in Rooms : Rehydrate(room)

NextStorage == LogStored \/ ForeignBlob \/ ReloadStored

SpecStorage == Init /\ [][NextStorage]_vars

\* C9: after rehydration from any persisted blob, a stale currentSession or
\* isLoadingMessage: true included, the store has currentSession = null,
\* isLoadingMessage = false, isVoiceNavOpen = false, pendingSession = null,
\* isLoadingQuest = false and isLoadingEvolution = false.
Thm_C9_RehydrateResetsTransients ==
    lastOp.op = "rehydrate" =>
        /\ currentSession = NoSession
        /\ isLoadingMessage = FALSE
        /\ isVoiceNavOpen = FALSE
        /\ pendingSession = NoSession
        /\ isLoadingQuest = FALSE
        /\ isLoadingEvolution = FALSE

\* The store was just rehydrated from a blob that carried transient keys,
\* after some activity had been logged and stored.
Wit_C9_StaleBlobRehydrated ==
    /\ lastOp.op = "rehydrate"
    /\ lastOp.stale
    /\ Len(activityLog) > 0
    /\ currentSession = NoSession

\* C10 as stated: when a storage write throws quota-exceeded while the
\* activity log has 15 entries, the recovery ends in a successful write
\* whose stored activity log has at most 12 entries.
Cex_C10_RecoveryStoresPrunedLog ==
    (lastOp.op = "logActivity" /\ lastOp.threw /\ Len(activityLog) = 15) =>
        /\ lastOp.wrote
        /\ Len(storage.state.activityLog) <= 12

(***************************************************************************)
(* SpecQuota: one set() and the safeLocalStorage.setItem call that follows *)
(* it, as two steps, under every failure of the underlying storage.        *)
(***************************************************************************)
QuotaRooms == {3, 6, 10, NoThrow}

\* The set() of logActivity (src/types.ts 1116-1158), before persist
\* writes.
LogActivitySet ==
    /\ lastOp.op # "set"
    /\ nLogged < MaxQuotaLog
    /\ LogActivityUpdate(ToolUsage("coherence", "meditation"))
    /\ toasts' = ToastsAfterLog(ToolUsage("coherence", "meditation"))
    /\ lastOp' = [op |-> "set", threw |-> FALSE, wrote |-> FALSE, stale |-> FALSE]
    /\ UNCHANGED <<sessionVars, loadVars, guideVars, toolStates,
                   schedules, storage, fetches, now, nFetches>>

\* The safeLocalStorage.setItem call persist makes after the set().
WriteItem ==
    /\ lastOp.op = "set"
    /\ \E room \in QuotaRooms :
          /\ storage' = SetItem(storage, Blob(Persisted), room)
          /\ lastOp' = [op     |-> "setItem",
                        threw  |-> ~Fits(Blob(Persisted), room),
                        wrote  |-> SetItemWrote(storage, Blob(Persisted), room),
                        stale  |-> FALSE,
                        thrown |-> ThrownAt(storage, Blob(Persisted), room),
                        raised |-> SetItemRaises(storage, Blob(Persisted), room)]
    /\ UNCHANGED <<storeVars, fetches, now, nLogged, nFetches>>

\* The key's text is replaced from outside by one JSON.parse rejects.
Garble ==
    /\ lastOp.op # "set"
    /\ storage # Unparsable
    /\ storage' = Unparsable
    /\ lastOp' = [op |-> "garble", threw |-> FALSE, wrote |-> FALSE, stale |-> FALSE]
    /\ UNCHANGED <<storeVars, fetches, now, nLogged, nFetches>>

NextQuota == LogActivitySet \/ WriteItem \/ Garble

SpecQuota == Init /\ [][NextQuota]_vars

\* C11: safeLocalStorage.setItem never raises to its caller: for every
\* failure of the underlying storage (quota-exceeded on the first write, on
\* the pruned write or on the retry, or an unparsable stored blob) it
\* returns normally and the in-memory store state is exactly what it was
\* before the write was attempted.
Thm_C11_SetItemNeverRaises ==
    [][lastOp'.op = "setItem" =>
          (~lastOp'.raised /\ UNCHANGED storeVars)]_vars

\* A call whose retry threw after the pruned blob was written has returned.
Wit_C11_RetryThrewAndReturned ==
    /\ lastOp.op = "setItem"
    /\ lastOp.thrown = {"first", "retry"}
    /\ Len(activityLog) > Len(storage.state.activityLog)

(***************************************************************************)
(* SpecSchedule: recurring schedules while the clock runs on for days:     *)
(* the poller only runs while the application is open, so a schedule may   *)
(* be found due any number of days late.                                   *)
(***************************************************************************)
RecurringChoices ==
    {[recurrence |-> "daily",  recurrenceDays |-> {}],
     [recurrence |-> "weekly", recurrenceDays |-> {}],
     [recurrence |-> "custom", recurrenceDays |-> {1, 4}]}

ScheduleRecurring ==
    /\ currentSession.type = "scheduled_session"
    /\ Len(schedules) < MaxSchedules
    /\ nLogged < MaxLogged
    /\ toasts = <<>>
    /\ \A k \in 1..Len(schedules) : schedules[k].id # now
    /\ \E r \in RecurringChoices :
           AddSchedule([activity       |-> "meditation",
                        time           |-> now + 1,
                        recurrence     |-> r.recurrence,
                        recurrenceDays |-> r.recurrenceDays], NoThrow)

Elapse == Advance(MaxClock)

\* The poller finds a schedule due once the earlier toasts are gone.
PollLate ==
    /\ toasts = <<>>
    /\ currentSession = NoSession
    /\ DueSchedule(schedules, now) # 0
    /\ PollSchedules(NoThrow)

NextSchedule ==
    \/ OpenScheduler
    \/ ScheduleRecurring
    \/ Leave
    \/ NavigatorClose
    \/ Elapse
    \/ PollLate
    \/ DismissToast

SpecSchedule == Init /\ [][NextSchedule]_vars

\* The schedule the poller just completed, as it is now.
Completed == schedules[FindSchedule(schedules, lastOp.was.id)]

\* C12: handleScheduleCompletion on a daily schedule whose time t0 is in
\* the past sets its time to t0 + k days for the smallest integer k >= 1
\* such that t0 + k days is strictly later than the current time, keeping
\* the time of day and leaving status 'scheduled'.
Thm_C12_DailyNextFutureDay ==
    (lastOp.op = "pollSchedules" /\ lastOp.was.recurrence = "daily") =>
        /\ Completed.status = "scheduled"
        /\ \E n \in 1..MaxClock :
              /\ Completed.time = lastOp.was.time + n * TicksPerDay
              /\ Completed.time > now
              /\ n > 1 => lastOp.was.time + (n - 1) * TicksPerDay <= now

\* A daily schedule was found due two days or more late and completed.
Wit_C12_DailyCaughtUp ==
    /\ lastOp.op = "pollSchedules"
    /\ lastOp.was.recurrence = "daily"
    /\ Completed.time >= lastOp.was.time + 3 * TicksPerDay

\* C13 as stated: after handleScheduleCompletion on any recurring schedule
\* (daily, weekly or custom), the schedule's time is strictly later than
\* the current time, however long the application was closed.
Cex_C13_RecurringTimeInFuture ==
    (lastOp.op = "pollSchedules"
        /\ lastOp.was.recurrence \in {"daily", "weekly", "custom"}) =>
        Completed.time > now

(***************************************************************************)
(* SpecQuest: coherence quests.  The dashboard widget asks for a quest     *)
(* when there is none (src/components/Dashboard.tsx 41-45); the quest is   *)
(* what the generative service returns; tools and chats are logged.        *)
(***************************************************************************)
Quest(n, targetTool, isCompleted) ==
    [id |-> n, targetTool |-> targetTool, isCompleted |-> isCompleted,
     completionTimestamp |-> NoTimestamp]

QuestsReceived == Len(completedQuests) + (IF activeQuest = NoQuest THEN 0 ELSE 1)

WidgetFetch ==
    /\ QuestsReceived < MaxQuests
    /\ FetchCoherenceQuest(NoThrow)

QuestArrives ==
    \E targetTool \in LoggedTools, isCompleted \in BOOLEAN :
        QuestResolved(Quest(QuestsReceived + 1, targetTool, isCompleted), NoThrow)

QuestFails == QuestFailed(NoThrow)

UseToolQuest ==
    /\ nLogged < MaxLogged
    /\ \E t \in LoggedTools : LogActivity(ToolUsage("coherence", t), NoThrow)

LogChatQuest ==
    /\ nLogged < MaxLogged
    /\ LogActivity(ChatSession("coherence", <<"greeting", "user">>), NoThrow)

NextQuest ==
    \/ WidgetFetch
    \/ QuestArrives
    \/ QuestFails
    \/ UseToolQuest
    \/ LogChatQuest

SpecQuest == Init /\ [][NextQuest]_vars

\* C14: when logActivity logs a tool_usage entry whose toolId equals the
\* targetTool of the active, not yet completed quest, then after the call
\* activeQuest is null and that quest is at the head of completedQuests
\* with isCompleted = true; a chat_session entry or a tool_usage entry for
\* any other tool leaves activeQuest and completedQuests unchanged.
Thm_C14_QuestCompletedByItsTool ==
    [][(lastOp'.op = "logActivity" /\ activeQuest # NoQuest
            /\ ~activeQuest.isCompleted) =>
          LET entry == Head(activityLog')
          IN  IF entry.type = "tool_usage" /\ entry.toolId = activeQuest.targetTool
              THEN /\ activeQuest' = NoQuest
                   /\ Len(completedQuests') = Len(completedQuests) + 1
                   /\ Head(completedQuests').id = activeQuest.id
                   /\ Head(completedQuests').isCompleted
                   /\ Tail(completedQuests') = completedQuests
              ELSE UNCHANGED <<activeQuest, completedQuests>>]_vars

\* The second quest of the run was just completed by its tool.
Wit_C14_SecondQuestCompleted ==
    /\ lastOp.op = "logActivity"
    /\ activeQuest = NoQuest
    /\ Len(completedQuests) = 2
    /\ Head(completedQuests).isCompleted
    /\ Head(completedQuests).completionTimestamp = now
    /\ Head(activityLog).toolId = Head(completedQuests).targetTool

\* C15 as stated: when logActivity completes the active quest, after the
\* call has returned the toasts list contains the quest-completion success
\* toast.
Cex_C15_QuestToastKept ==
    [][(lastOp'.op = "logActivity" /\ activeQuest # NoQuest
            /\ activeQuest' = NoQuest) =>
          \E k \in 1..Len(toasts') :
              /\ toasts'[k].type = "success"
              /\ toasts'[k].message = "quest completed"]_vars

(***************************************************************************)
(* The interactive guide (src/types.ts 1066-1112).                         *)
(***************************************************************************)
MaxStep == 2

\* The tours the model starts and the contexts they are started with: no
\* context ({}), or a context that names a mentor.
TourIds      == {"main", "mentor", "tool_meditation"}
TourContexts == {Null, "coherence"}

\* The marker endGuide records for a tour (lines 1092-1099): a mentor tour
\* started with an agent in its context is recorded per agent.
UniqueTourId(tourId, context) ==
    IF tourId = "mentor" /\ context # Null
    THEN "mentor_" \o context
    ELSE tourId

\* A push with no look at the array.
PushTour(tours, uniqueTourId) == Append(tours, uniqueTourId)

\* Lines 1101-1103: push unless the array includes the marker.
MarkCompleted(tours, uniqueTourId) ==
    IF \E k \in 1..Len(tours) : tours[k] = uniqueTourId
    THEN tours
    ELSE Append(tours, uniqueTourId)

\* startGuide (lines 1066-1070).
StartGuide(tourId, context, q) ==
    IF guideState.isActive
    THEN /\ UNCHANGED <<storeVars, storage, fetches, now, nLogged, nFetches>>
         /\ lastOp' = [op |-> "startGuide", threw |-> FALSE, wrote |-> FALSE,
                       stale |-> FALSE]
    ELSE /\ guideState' = [isActive |-> TRUE, step |-> 0, tourId |-> tourId,
                           context |-> context]
         /\ UNCHANGED <<vectorVars, sessionVars, gameVars, loadVars,
                        completedTours, toolStates, toasts, schedules,
                        activityLog, fetches, now, nLogged, nFetches>>
         /\ Persist("startGuide", q)

\* prevGuideStep (lines 1072-1076).
PrevGuideStep(q) ==
    /\ guideState' = [guideState EXCEPT
                         !.step = IF guideState.step - 1 > 0
                                  THEN guideState.step - 1 ELSE 0]
    /\ UNCHANGED <<vectorVars, sessionVars, gameVars, loadVars,
                   completedTours, toolStates, toasts, schedules,
                   activityLog, fetches, now, nLogged, nFetches>>
    /\ Persist("prevGuideStep", q)

\* nextGuideStep (lines 1078-1082).
NextGuideStep(q) ==
    /\ guideState' = [guideState EXCEPT !.step = guideState.step + 1]
    /\ UNCHANGED <<vectorVars, sessionVars, gameVars, loadVars,
                   completedTours, toolStates, toasts, schedules,
                   activityLog, fetches, now, nLogged, nFetches>>
    /\ Persist("nextGuideStep", q)

\* endGuide (lines 1084-1112); the record keeps the guide and the markers
\* the handler found.  After the update the main tour opens the
\* voice navigator; its setView('dashboard') writes activeView, a field the
\* model does not carry.
EndGuide(q) ==
    LET tourId  == guideState.tourId
        context == guideState.context
    IN  /\ guideState' = initialGuideState
        /\ completedTours' =
               IF tourId # Null
               THEN MarkCompleted(completedTours, UniqueTourId(tourId, context))
               ELSE completedTours
        /\ isVoiceNavOpen' = IF tourId = "main" THEN TRUE ELSE isVoiceNavOpen
        /\ UNCHANGED <<vectorVars, gameVars, loadVars, toolStates, toasts,
                       schedules, activityLog, currentSession,
                       lastAgentContext, chatHistories, reconnectionAgentId,
                       proactiveNavContext, pendingSession, fetches, now,
                       nLogged, nFetches>>
        /\ storage' = SetItem(storage, Blob(Persisted'), q)
        /\ lastOp' = [op    |-> "endGuide",
                      threw |-> ~Fits(Blob(Persisted'), q),
                      wrote |-> SetItemWrote(storage, Blob(Persisted'), q),
                      stale |-> FALSE,
                      was   |-> [guideState     |-> guideState,
                                 completedTours |-> completedTours]]

StartTour ==
    \E tourId \in TourIds, context \in TourContexts :
        StartGuide(tourId, context, NoThrow)

NextStep ==
    /\ guideState.step < MaxStep
    /\ NextGuideStep(NoThrow)

PrevStep == PrevGuideStep(NoThrow)

EndTour == EndGuide(NoThrow)

NextGuide ==
    \/ StartTour
    \/ NextStep
    \/ PrevStep
    \/ EndTour
    \/ NavigatorClose

SpecGuide == Init /\ [][NextGuide]_vars

NoTourTwice(tours) ==
    \A j, k \in 1..Len(tours) : tours[j] = tours[k] => j = k

\* C16: every endGuide leaves the guide inactive and completedTours without
\* a repeated id; it adds at most the marker of the tour that was active,
\* and adds nothing when that marker is already there or no tour is active.
Thm_C16_EndGuideMarksOnce ==
    [][lastOp'.op = "endGuide" =>
          /\ ~guideState'.isActive
          /\ NoTourTwice(completedTours')
          /\ guideState.tourId = Null => completedTours' = completedTours
          /\ \A k \in 1..Len(completedTours) :
                 completedTours[k]
                     = UniqueTourId(guideState.tourId, guideState.context)
                 => completedTours' = completedTours]_vars

\* A mentor tour of an agent already recorded has been ended a second time:
\* the handler found its marker in the array and left the array as it was.
Wit_C16_CompletedTourEndedAgain ==
    /\ lastOp.op = "endGuide"
    /\ lastOp.was.guideState.isActive
    /\ lastOp.was.guideState.tourId = "mentor"
    /\ lastOp.was.guideState.context = "coherence"
    /\ \E k \in 1..Len(lastOp.was.completedTours) :
           lastOp.was.completedTours[k] = "mentor_coherence"
    /\ completedTours = lastOp.was.completedTours
    /\ ~guideState.isActive

(***************************************************************************)
(* SpecMono: calculateUcs (src/types.ts 351-369) along single raises.  The *)
(* store starts on a uniform vector; each analysis result raises the       *)
(* coerencia or the dissonancia of one dimension and leaves every other    *)
(* field as it was.  At most MaxRaisedDims dimensions differ from the      *)
(* others.                                                                 *)
(***************************************************************************)
MaxRaisedDims == 1

RaiseLevels == {1, 100}

\* setCoherenceVector (lines 1048-1057) on newVector; the record keeps the
\* score the handler replaced and the field the caller raised.
SetRaisedVector(newVector, field, q) ==
    /\ coherenceVector' = newVector
    /\ ucs' = calculateUcs(newVector)
    /\ recommendation' = getPicRecommendation(newVector).agentId
    /\ recommendationName' = getPicRecommendation(newVector).dimensionName
    /\ UNCHANGED <<sessionVars, gameVars, loadVars, guideVars, toolStates,
                   toasts, schedules, activityLog, fetches, now, nLogged,
                   nFetches>>
    /\ storage' = SetItem(storage, Blob(Persisted'), q)
    /\ lastOp' = [op     |-> "setCoherenceVector",
                  threw  |-> ~Fits(Blob(Persisted'), q),
                  wrote  |-> SetItemWrote(storage, Blob(Persisted'), q),
                  stale  |-> FALSE,
                  raised |-> field,
                  was    |-> ucs]

RaiseCoerencia ==
    \E k \in Dimensions, c \in RaiseLevels :
        LET newVector == [coherenceVector EXCEPT ![k].coerencia = c]
        IN  /\ c > coherenceVector[k].coerencia
            /\ OddDims(newVector) <= MaxRaisedDims
            /\ SetRaisedVector(newVector, "coerencia", NoThrow)

RaiseDissonancia ==
    \E k \in Dimensions, d \in RaiseLevels :
        LET newVector == [coherenceVector EXCEPT ![k].dissonancia = d]
        IN  /\ d > coherenceVector[k].dissonancia
            /\ OddDims(newVector) <= MaxRaisedDims
            /\ SetRaisedVector(newVector, "dissonancia", NoThrow)

NextMono == RaiseCoerencia \/ RaiseDissonancia

SpecMono == InitUcs /\ [][NextMono]_vars

\* The dimensions in which two vectors differ.
ChangedDims(v, w) == {k \in Dimensions : v[k] # w[k]}

\* C17: between two valid vectors with the same alinhamentoPAC that differ
\* in one dimension only, a higher coerencia with the same dissonancia never
\* gives a lower score, and a higher dissonancia with the same coerencia
\* never gives a higher score.
Thm_C17_UcsMonotone ==
    [][(/\ ValidVector(coherenceVector)
        /\ ValidVector(coherenceVector')
        /\ coherenceVector'.alinhamentoPAC = coherenceVector.alinhamentoPAC
        /\ Cardinality(ChangedDims(coherenceVector, coherenceVector')) = 1)
       => \A k \in ChangedDims(coherenceVector, coherenceVector') :
           /\ (/\ coherenceVector'[k].dissonancia = coherenceVector[k].dissonancia
               /\ coherenceVector'[k].coerencia > coherenceVector[k].coerencia)
              => ucs' >= ucs
           /\ (/\ coherenceVector'[k].coerencia = coherenceVector[k].coerencia
               /\ coherenceVector'[k].dissonancia > coherenceVector[k].dissonancia)
              => ucs' <= ucs]_vars

\* A raise of one dissonancia has lowered the score of a vector that is not
\* uniform any more.
Wit_C17_DissonanciaRaisedScoreFell ==
    /\ lastOp.op = "setCoherenceVector"
    /\ lastOp.raised = "dissonancia"
    /\ ucs < lastOp.was
    /\ OddDims(coherenceVector) = 1

(***************************************************************************)
(* getFriendlyErrorMessage (src/utils/errorUtils.ts 9-68).                 *)
(* A text is the set of fragments it contains: the fragments the           *)
(* classifier looks for, in the spellings that tell its case-sensitive     *)
(* tests from its case-insensitive ones, and "other" for any other         *)
(* characters.  The empty string is the empty set.                         *)
(***************************************************************************)
MaxFragments == 2

Fragments ==
    {"network error", "Network Error", "Permission denied by system",
     "RESOURCE_EXHAUSTED", "429", "API key not found", "PERMISSION_DENIED",
     "Requested entity was not found", "permission denied",
     "Permission Denied", "microphone", "Microphone", "400", "Invalid",
     "invalid", "request is invalid", "other"}

Texts == {t \in SUBSET Fragments : Cardinality(t) <= MaxFragments}

\* String.prototype.toLowerCase, fragment by fragment.
LowerOf(fragment) ==
    CASE fragment = "Network Error"               -> "network error"
      [] fragment = "Permission denied by system" -> "permission denied by system"
      [] fragment = "RESOURCE_EXHAUSTED"          -> "resource_exhausted"
      [] fragment = "API key not found"           -> "api key not found"
      [] fragment = "PERMISSION_DENIED"           -> "permission_denied"
      [] fragment = "Requested entity was not found"
                                                  -> "requested entity was not found"
      [] fragment = "Permission Denied"           -> "permission denied"
      [] fragment = "Microphone"                  -> "microphone"
      [] fragment = "Invalid"                     -> "invalid"
      [] OTHER                                    -> fragment

ToLowerCase(text) == {LowerOf(f) : f \in text}

\* String.prototype.includes: the marker is one of the fragments or lies
\* inside one of them.
Inside(marker, fragment) ==
    \/ marker = fragment
    \/ marker = "permission denied" /\ fragment = "permission denied by system"
    \/ marker = "invalid" /\ fragment = "request is invalid"

Includes(text, marker) == \E f \in text : Inside(marker, f)

\* The values a catch block hands over.  A DOMException is an Error.
DomNames == {"NotAllowedError", "NotFoundError", "AbortError"}

DomError(name, message) == [kind |-> "DOMException", name |-> name, message |-> message]
JsError(message)        == [kind |-> "Error", name |-> "Error", message |-> message]
StringError(message)    == [kind |-> "string", name |-> "none", message |-> message]
NestedError(message)    == [kind |-> "nested", name |-> "none", message |-> message]
PlainObject             == [kind |-> "object", name |-> "none", message |-> {}]
NullError               == [kind |-> "null", name |-> "none", message |-> {}]

ErrorValues ==
    {DomError(n, t) : n \in DomNames, t \in Texts}
        \cup {JsError(t) : t \in Texts}
        \cup {StringError(t) : t \in Texts}
        \cup {NestedError(t) : t \in Texts}
        \cup {PlainObject, NullError}

\* Object.prototype.toString of a plain object: "[object Object]".
ObjectText == {"other"}

\* Step 2 (lines 24-33).  An empty nested message is falsy and the object's
\* toString is taken instead.
ExtractMessage(error) ==
    CASE error.kind \in {"DOMException", "Error"} -> error.message
      [] error.kind = "string"                     -> error.message
      [] error.kind = "nested" ->
             IF error.message # {} THEN error.message ELSE ObjectText
      [] error.kind = "object"                     -> ObjectText
      [] OTHER                                     -> {}

\* The fixed messages (lines 15, 18, 39, 44, 49, 54, 58, 63).
MicDeniedMessage    == "microphone permission denied"
MicMissingMessage   == "no microphone found"
NetworkMessage      == "network error"
MicSystemMessage    == "microphone denied by the operating system"
QuotaMessage        == "API quota exceeded"
ApiKeyMessage       == "API key missing or invalid"
BadRequestMessage   == "invalid request"

FixedMessages ==
    {MicDeniedMessage, MicMissingMessage, NetworkMessage, MicSystemMessage,
     QuotaMessage, ApiKeyMessage, BadRequestMessage}

\* Line 38 with the test made on the text as it came.
IsNetworkErrorExact(errorMessage) == Includes(errorMessage, "network error")

\* Line 38.
IsNetworkError(errorMessage) ==
    Includes(ToLowerCase(errorMessage), "network error")

getFriendlyErrorMessage(error, defaultMessage) ==
    LET errorMessage == ExtractMessage(error)
    IN  IF error.kind = "DOMException" /\ error.name = "NotAllowedError"
        THEN MicDeniedMessage
        ELSE IF error.kind = "DOMException" /\ error.name = "NotFoundError"
        THEN MicMissingMessage
        ELSE IF IsNetworkError(errorMessage)
        THEN NetworkMessage
        ELSE IF Includes(errorMessage, "Permission denied by system")
        THEN MicSystemMessage
        ELSE IF \/ Includes(errorMessage, "RESOURCE_EXHAUSTED")
                \/ Includes(errorMessage, "429")
        THEN QuotaMessage
        ELSE IF \/ Includes(errorMessage, "API key not found")
                \/ Includes(errorMessage, "PERMISSION_DENIED")
                \/ Includes(errorMessage, "Requested entity was not found")
        THEN ApiKeyMessage
        ELSE IF /\ Includes(errorMessage, "permission denied")
                /\ ~Includes(ToLowerCase(errorMessage), "microphone")
        THEN ApiKeyMessage
        ELSE IF /\ Includes(errorMessage, "400")
                /\ \/ Includes(errorMessage, "Invalid")
                   \/ Includes(errorMessage, "request is invalid")
        THEN BadRequestMessage
        ELSE defaultMessage

\* handleApiError (src/types.ts 399-404): the friendly message goes into a
\* toast; the record keeps the value that was caught.
HandleApiError(error, defaultMessage, q) ==
    /\ toasts' = AddToast(toasts, getFriendlyErrorMessage(error, defaultMessage),
                          "error")
    /\ UNCHANGED <<vectorVars, sessionVars, gameVars, loadVars, guideVars,
                   toolStates, schedules, activityLog, fetches, now, nLogged,
                   nFetches>>
    /\ storage' = SetItem(storage, Blob(Persisted'), q)
    /\ lastOp' = [op    |-> "handleApiError",
                  threw |-> ~Fits(Blob(Persisted'), q),
                  wrote |-> SetItemWrote(storage, Blob(Persisted'), q),
                  stale |-> FALSE,
                  error |-> error]

(***************************************************************************)
(* SpecError: requests that fail, one toast at a time.                     *)
(***************************************************************************)
DefaultMessage == "Falha ao gerar o audio."

RequestFails ==
    /\ toasts = <<>>
    /\ \E error \in ErrorValues : HandleApiError(error, DefaultMessage, NoThrow)

NextError == RequestFails \/ DismissToast

SpecError == Init /\ [][NextError]_vars

\* One of the classifier's markers is in the value caught.
MarkerMatches(error) ==
    LET text == ExtractMessage(error)
        has(marker) == \E f \in text : marker = f
    IN  \/ error.kind = "DOMException"
           /\ error.name \in {"NotAllowedError", "NotFoundError"}
        \/ has("network error") \/ has("Network Error")
        \/ has("Permission denied by system")
        \/ has("RESOURCE_EXHAUSTED") \/ has("429")
        \/ has("API key not found") \/ has("PERMISSION_DENIED")
        \/ has("Requested entity was not found")
        \/ has("permission denied")
           /\ ~(has("microphone") \/ has("Microphone"))
        \/ has("400") /\ (has("Invalid") \/ has("request is invalid"))

\* C18: the message shown for a caught value is one of the fixed messages
\* or the caller's default, never the text of the value, and it is the
\* default exactly when none of the classifier's markers is in the value.
Thm_C18_FriendlyMessageOnly ==
    (lastOp.op = "handleApiError" /\ Len(toasts) = 1) =>
        /\ toasts[1].message \in FixedMessages \cup {DefaultMessage}
        /\ toasts[1].message = DefaultMessage <=> ~MarkerMatches(lastOp.error)

\* A nested API error body whose message names a network failure in capitals
\* was shown as the network message.
Wit_C18_NestedNetworkErrorShown ==
    /\ lastOp.op = "handleApiError"
    /\ lastOp.error = NestedError({"Network Error", "other"})
    /\ Len(toasts) = 1
    /\ toasts[1].message = NetworkMessage

(***************************************************************************)
(* SpecDerived: the vector and the values derived from it, under analysis  *)
(* results, logged activities and reloads from a blob that carries its own *)
(* score and recommendation.                                               *)
(***************************************************************************)
\* Derived keys a stored blob may carry: none of them is what the initial
\* vector or any analysis result gives.
DerivedExtra ==
    [NoExtra EXCEPT !.ucs = 0,
                    !.recommendation = "health",
                    !.recommendationName = "Geral"]

\* The key's content is replaced from outside the store.
ForeignDerived ==
    /\ storage.present
    /\ storage.extra = NoExtra
    /\ storage' = [storage EXCEPT !.extra = DerivedExtra]
    /\ lastOp' = [op |-> "foreignBlob", threw |-> FALSE, wrote |-> TRUE,
                  stale |-> FALSE]
    /\ UNCHANGED <<vectorVars, sessionVars, gameVars, loadVars, guideVars,
                   toolStates, toasts, schedules, activityLog, fetches, now,
                   nLogged, nFetches>>

NextDerived == Analyze \/ UseTool \/ ForeignDerived \/ Reload

SpecDerived == Init /\ [][NextDerived]_vars

\* C19: in every reachable state ucs is calculateUcs of the stored vector
\* and recommendation and recommendationName are what getPicRecommendation
\* gives for it.
Thm_C19_DerivedFollowVector ==
    /\ ucs = calculateUcs(coherenceVector)
    /\ recommendation = getPicRecommendation(coherenceVector).agentId
    /\ recommendationName = getPicRecommendation(coherenceVector).dimensionName

\* The store was reloaded from a blob that carried a score and a
\* recommendation of its own next to a vector an activity had changed.
Wit_C19_ReloadedOverStaleDerived ==
    /\ lastOp.op = "rehydrate"
    /\ lastOp.stale
    /\ Len(activityLog) > 0
    /\ coherenceVector = Head(activityLog).vectorSnapshot
    /\ coherenceVector # initialVector
    /\ ucs # DerivedExtra.ucs
    /\ recommendationName # DerivedExtra.recommendationName

(***************************************************************************)
(* SpecExit: the session life cycle with endSession called at any time,    *)
(* with or without a session.                                              *)
(***************************************************************************)
ExitAny ==
    /\ nLogged < MaxArchived
    /\ nFetches < MaxFetches
    /\ \E isManualExit \in BOOLEAN, hasToolResult \in BOOLEAN :
           EndSession(isManualExit, hasToolResult, NoThrow)

NextExit ==
    \/ DashboardStart
    \/ FooterOpenNav
    \/ NavigatorQueue
    \/ NavigatorClose
    \/ PendingEffect
    \/ ChooseMode
    \/ Converse
    \/ ExitAny
    \/ SummaryArrives
    \/ SummaryFails

SpecExit == Init /\ [][NextExit]_vars

\* The session ended goes back to the voice navigator.
BackToNavigator(session) ==
    /\ session.origin = "voice"
    /\ ~(session.type = "agent" /\ session.mode = "text")

\* C20 as stated: endSession on an active session clears currentSession; it
\* opens the voice navigator with proactiveNavContext = 'loading' exactly
\* when the origin is 'voice' and the session is not an agent chat in text
\* mode, and otherwise leaves isVoiceNavOpen unchanged; with no session it
\* changes nothing.
Cex_C20_NavigatorOpensLoading ==
    [][lastOp'.op = "endSession" =>
          IF currentSession = NoSession
          THEN UNCHANGED storeVars
          ELSE /\ currentSession' = NoSession
               /\ IF BackToNavigator(currentSession)
                  THEN isVoiceNavOpen' /\ proactiveNavContext' = Loading
                  ELSE isVoiceNavOpen' = isVoiceNavOpen]_vars

\* C20 amended: as above, but on the way back to the navigator
\* proactiveNavContext is 'loading' when endSession has requested a summary
\* and one of the two fixed lines when it has not.
Thm_C20_ExitRouting ==
    [][lastOp'.op = "endSession" =>
          IF currentSession = NoSession
          THEN UNCHANGED storeVars
          ELSE /\ currentSession' = NoSession
               /\ IF BackToNavigator(currentSession)
                  THEN /\ isVoiceNavOpen'
                       /\ nFetches' # nFetches => proactiveNavContext' = Loading
                       /\ nFetches' = nFetches =>
                              proactiveNavContext' \in {ClosingLine, WhatNextLine}
                  ELSE /\ isVoiceNavOpen' = isVoiceNavOpen
                       /\ proactiveNavContext' = NoContext]_vars

\* A session opened from the voice navigator has ended with no summary to
\* wait for: the navigator is open on the closing line.
Wit_C20_NavigatorOpenOnClosingLine ==
    /\ lastOp.op = "endSession"
    /\ currentSession = NoSession
    /\ isVoiceNavOpen
    /\ proactiveNavContext = ClosingLine
    /\ fetches = {}

\* C21: when the summary requested by endSession fails, the handler's catch
\* leaves the navigator as it is (open, unless the user has closed it) and
\* proactiveNavContext is null afterwards, not 'loading'; nothing else of
\* the store changes.
Thm_C21_SummaryFailureSwallowed ==
    [][lastOp'.op = "summaryFailed" =>
          /\ isVoiceNavOpen' = isVoiceNavOpen
          /\ proactiveNavContext' = NoContext
          /\ currentSession' = currentSession
          /\ toasts' = toasts
          /\ activityLog' = activityLog]_vars

\* The summary has just failed under an open navigator that no session had
\* replaced.
Wit_C21_NavigatorOpenWithoutPrompt ==
    /\ lastOp.op = "summaryFailed"
    /\ isVoiceNavOpen
    /\ currentSession = NoSession
    /\ pendingSession = NoSession
    /\ proactiveNavContext = NoContext
    /\ fetches = {}

(***************************************************************************)
(* switchAgent (src/types.ts 693-717).                                     *)
(***************************************************************************)
\* The mentor chat came in through the voice navigator.
WasVoiceOrigin(session) == session.type = "agent" /\ session.origin = "voice"

\* Line 695.
WasVoiceMode(session) == session.type = "agent" /\ session.mode = "voice"

\* The record keeps the agent switched to.
SwitchAgent(agentId, q) ==
    LET previousSession == currentSession
        wasVoiceMode == WasVoiceMode(previousSession)
        history == chatHistories[previousSession.id]
    IN  /\ IF previousSession.type = "agent" /\ ShouldArchive(history)
           THEN LogActivityUpdate(ChatSession(previousSession.id, history))
           ELSE UNCHANGED <<vectorVars, gameVars, activityLog, nLogged>>
        /\ currentSession' =
               [type      |-> "agent",
                id        |-> agentId,
                mode      |-> IF wasVoiceMode THEN "voice" ELSE Null,
                origin    |-> IF wasVoiceMode THEN "voice" ELSE "manual",
                autoStart |-> wasVoiceMode,
                schedule  |-> Null]
        /\ lastAgentContext' = agentId
        /\ reconnectionAgentId' = Null
        /\ proactiveNavContext' = NoContext
        /\ chatHistories' = AddInitialMessage(chatHistories, agentId)
        /\ UNCHANGED <<loadVars, guideVars, toolStates, toasts, schedules,
                       isVoiceNavOpen, pendingSession, fetches, now, nFetches>>
        /\ storage' = SetItem(storage, Blob(Persisted'), q)
        /\ lastOp' = [op    |-> "switchAgent",
                      threw |-> ~Fits(Blob(Persisted'), q),
                      wrote |-> SetItemWrote(storage, Blob(Persisted'), q),
                      stale |-> FALSE,
                      to    |-> agentId]

(***************************************************************************)
(* SpecSwitch: mentor chats, started from the dashboard or through the     *)
(* navigator, in which the user changes mentor.                            *)
(***************************************************************************)
SwitchTo ==
    /\ nLogged < MaxLogged
    /\ \E agentId \in ChatAgents : SwitchAgent(agentId, NoThrow)

NextSwitch ==
    \/ DashboardStart
    \/ FooterOpenNav
    \/ NavigatorQueue
    \/ NavigatorClose
    \/ PendingEffect
    \/ ChooseMode
    \/ Converse
    \/ SwitchTo

SpecSwitch == Init /\ [][NextSwitch]_vars

\* C22: switchAgent(a) during a mentor chat with p logs a chat_session
\* entry for p exactly when p's history has more than 1 message, and leaves
\* an agent session for a whose mode is 'voice' if and only if the session
\* before was an agent session in voice mode.
Thm_C22_SwitchArchivesAndKeepsVoice ==
    [][lastOp'.op = "switchAgent" =>
          /\ currentSession'.type = "agent"
          /\ currentSession'.id = lastOp'.to
          /\ currentSession'.mode = "voice"
                <=> (currentSession.type = "agent" /\ currentSession.mode = "voice")
          /\ currentSession.type = "agent" =>
                /\ Len(chatHistories[currentSession.id]) > 1 => ChatArchived
                /\ Len(chatHistories[currentSession.id]) <= 1 => NothingArchived
          /\ currentSession.type # "agent" => NothingArchived]_vars

\* The user has switched to the other mentor out of a voice chat of two
\* messages: the chat is at the head of the log and the new session is in
\* voice mode.
Wit_C22_VoiceChatSwitched ==
    /\ lastOp.op = "switchAgent"
    /\ lastOp.to = "health"
    /\ currentSession.type = "agent"
    /\ currentSession.id = "health"
    /\ currentSession.mode = "voice"
    /\ Len(activityLog) > 0
    /\ Head(activityLog).type = "chat_session"
    /\ Head(activityLog).agentId = "coherence"
    /\ Len(Head(activityLog).messages) = 2

(***************************************************************************)
(* SpecCustom: one custom-days schedule at a time, over every set of up to *)
(* MaxDays weekdays (src/types.ts 273: 0 = Sunday .. 6 = Saturday).        *)
(***************************************************************************)
MaxDays == 2

Weekdays == 0..(DaysPerWeek - 1)

DaySets == {days \in SUBSET Weekdays : days # {} /\ Cardinality(days) <= MaxDays}

ScheduleCustom ==
    /\ currentSession.type = "scheduled_session"
    /\ schedules = <<>>
    /\ nLogged < MaxLogged
    /\ toasts = <<>>
    /\ \E days \in DaySets :
           AddSchedule([activity       |-> "meditation",
                        time           |-> now + 1,
                        recurrence     |-> "custom",
                        recurrenceDays |-> days], NoThrow)

NextCustom ==
    \/ OpenScheduler
    \/ ScheduleCustom
    \/ Leave
    \/ Elapse
    \/ PollLate
    \/ DismissToast

SpecCustom == Init /\ [][NextCustom]_vars

\* C23: handleScheduleCompletion on a custom schedule with a non-empty day
\* set moves its time forward by d whole days, 1 <= d <= 7, to the first
\* weekday of the set strictly after the weekday of the occurrence, or,
\* when the set has no later weekday, to the smallest weekday of the set in
\* the following week; the new weekday is a member of the set.
Thm_C23_CustomNextListedWeekday ==
    (/\ lastOp.op = "pollSchedules"
     /\ lastOp.was.recurrence = "custom"
     /\ lastOp.was.recurrenceDays # {}) =>
        LET days   == lastOp.was.recurrenceDays
            before == WeekdayOf(lastOp.was.time)
            after  == WeekdayOf(Completed.time)
            later  == {w \in days : w > before}
        IN  /\ Completed.status = "scheduled"
            /\ after \in days
            /\ \E d \in 1..7 :
                  /\ Completed.time = lastOp.was.time + d * TicksPerDay
                  /\ later # {} =>
                        /\ after \in later
                        /\ \A w \in later : after <= w
                        /\ d = after - before
                  /\ later = {} =>
                        /\ \A w \in days : after <= w
                        /\ d = 7 - before + after

\* A schedule on Mondays and Thursdays that fell on a Saturday has been
\* moved over the week's end to the Monday after.
Wit_C23_WrappedToNextWeek ==
    /\ lastOp.op = "pollSchedules"
    /\ lastOp.was.recurrence = "custom"
    /\ lastOp.was.recurrenceDays = {1, 4}
    /\ WeekdayOf(lastOp.was.time) = 6
    /\ WeekdayOf(Completed.time) = 1
    /\ Completed.time = lastOp.was.time + 2 * TicksPerDay

(***************************************************************************)
(* SpecPoll: the schedule poller ticking at any time, also while a session *)
(* is active or nothing is due (src/App.tsx 96-114).                       *)
(***************************************************************************)
\* One tick of the 5 s interval, whatever the store holds.
PollTick ==
    /\ toasts = <<>>
    /\ PollSchedules(NoThrow)

NextPoll ==
    \/ OpenScheduler
    \/ ScheduleRecurring
    \/ Leave
    \/ Elapse
    \/ PollTick
    \/ DismissToast

SpecPoll == Init /\ [][NextPoll]_vars

\* The step is a tick of the poller.
PollerRan == lastOp'.op \in {"pollSchedules", "pollSkipped"}

\* C24: a tick of the schedule poller that finds a session active changes
\* no store state and writes nothing; a tick starts a
\* scheduled_session_handler session only when no session is active.
Thm_C24_PollerSparesActiveSession ==
    [][PollerRan =>
         /\ currentSession # NoSession =>
                /\ UNCHANGED <<storeVars, storage>>
                /\ lastOp'.op = "pollSkipped"
         /\ lastOp'.op = "pollSchedules" =>
                /\ currentSession = NoSession
                /\ currentSession'.type = "scheduled_session_handler"]_vars

\* A tick ran and changed nothing while the user was in a session and a
\* schedule was due.
Wit_C24_TickDuringSessionWithDueSchedule ==
    /\ lastOp.op = "pollSkipped"
    /\ currentSession # NoSession
    /\ DueSchedule(schedules, now) # 0

\* C25: whenever the guide is inactive its step is 0 and its tourId is
\* null, nextGuideStep and prevGuideStep leaving an inactive guide alone.
Cex_C25_InactiveGuideAtRest ==
    ~guideState.isActive =>
        /\ guideState.step = 0
        /\ guideState.tourId = Null

(***************************************************************************)
(* SpecStreak: activities logged over several days, and page loads         *)
(* (src/types.ts 1148-1157).                                               *)
(***************************************************************************)
NextStreakRun == UseTool \/ Elapse \/ Reload

SpecStreak == Init /\ [][NextStreakRun]_vars

\* C26: logActivity adds 1 to coherenceStreak when the previous activity was
\* on another calendar day and less than two days before now, sets it to 1
\* when the gap is two days or more or there is no previous activity, and
\* leaves it unchanged for a further activity on the same calendar day;
\* after any logActivity the streak is at least 1.
Thm_C26_StreakByDayAndGap ==
    [][lastOp'.op = "logActivity" =>
         LET last    == lastActivityTimestamp
             sameDay == last # NoTimestamp /\ DayOf(last) = DayOf(now)
             recent  == last # NoTimestamp /\ now - last < 2 * TicksPerDay
         IN  /\ last = NoTimestamp => coherenceStreak' = 1
             /\ sameDay => coherenceStreak' = coherenceStreak
             /\ (~sameDay /\ recent) => coherenceStreak' = coherenceStreak + 1
             /\ (last # NoTimestamp /\ ~recent) => coherenceStreak' = 1
             /\ coherenceStreak' >= 1
             /\ lastActivityTimestamp' = now]_vars

\* Three activities: the second on the day after the first (streak 2), the
\* third two days or more after the second, which restarts the streak.
Wit_C26_StreakGrownThenRestarted ==
    /\ lastOp.op = "logActivity"
    /\ Len(activityLog) = 3
    /\ DayOf(activityLog[3].timestamp) # DayOf(activityLog[2].timestamp)
    /\ activityLog[2].timestamp - activityLog[3].timestamp < TwoDays
    /\ activityLog[1].timestamp - activityLog[2].timestamp >= TwoDays
    /\ coherenceStreak = 1

(***************************************************************************)
(* Message requests (src/types.ts 751-883): handleSendMessage,             *)
(* initDoshaChat and handleDoshaSendMessage each run up to their await,    *)
(* leave a request in flight, and continue when it settles.  A request is  *)
(* the record {kind, id, agentId}.                                         *)
(***************************************************************************)
MaxRequests == 2   \* message requests in flight at once
MaxMessages == 4   \* messages over all conversations

MessageRequests == {f \in fetches : "kind" \in DOMAIN f}

NewRequest(kind, agentId) ==
    [kind |-> kind, agentId |-> agentId,
     id   |-> SetMin({i \in 1..(MaxRequests + 1) :
                         \A f \in MessageRequests : f.id # i})]

\* What the generative service answers to a chat message: plain text, or
\* text with an [ACAO:meditation:...auto:true] tag (lines 765-785).
AgentReplies == {"text", "auto_meditation"}

\* What it answers in the dosha conversation: a further question, the
\* diagnosis with its "Dissonancia Dominante (Desequilibrio): <dosha>" line,
\* or a text that has the first two words and not the line (lines 849-858).
DoshaReplies ==
    {[isFinished |-> FALSE, dosha |-> Null],
     [isFinished |-> TRUE,  dosha |-> "Vata"],
     [isFinished |-> TRUE,  dosha |-> Null]}

\* The default messages of lines 794, 824 and 876.
SendDefault      == "Desculpe, nao consegui processar sua mensagem."
InitDoshaDefault == "Nao foi possivel iniciar o diagnostico. Tente novamente."
DoshaDefault     == "Ocorreu um erro ao processar sua resposta. Tente novamente."

\* handleSendMessage up to its await (lines 751-763).
HandleSendMessage(agentId, q) ==
    /\ chatHistories' = [chatHistories EXCEPT ![agentId] = Append(@, "user")]
    /\ isLoadingMessage' = TRUE
    /\ fetches' = fetches \cup {NewRequest("agentMessage", agentId)}
    /\ UNCHANGED <<vectorVars, gameVars, guideVars, toolStates, toasts,
                   schedules, activityLog, currentSession, lastAgentContext,
                   isVoiceNavOpen, reconnectionAgentId, proactiveNavContext,
                   pendingSession, isLoadingQuest, evolutionSummary,
                   isLoadingEvolution, doshaChat, now, nLogged, nFetches>>
    /\ Persist("handleSendMessage", q)

\* generateAgentResponse resolved (lines 764-792, 801-803).
MessageResolved(request, reply, q) ==
    /\ request \in fetches
    /\ request.kind = "agentMessage"
    /\ fetches' = fetches \ {request}
    /\ IF reply = "auto_meditation"
       THEN /\ reconnectionAgentId' = Null
            /\ proactiveNavContext' = NoContext
            /\ currentSession' =
                   [ToolSession("meditation") EXCEPT !.autoStart = TRUE,
                                                     !.origin = "manual"]
       ELSE UNCHANGED <<reconnectionAgentId, proactiveNavContext,
                        currentSession>>
    /\ chatHistories' =
           [chatHistories EXCEPT ![request.agentId] = Append(@, "agent")]
    /\ isLoadingMessage' = FALSE     \* finally { set({isLoadingMessage: false}) }
    /\ UNCHANGED <<vectorVars, gameVars, guideVars, toolStates, toasts,
                   schedules, activityLog, lastAgentContext, isVoiceNavOpen,
                   pendingSession, isLoadingQuest, evolutionSummary,
                   isLoadingEvolution, doshaChat, now, nLogged, nFetches>>
    /\ Persist("messageResolved", q)

\* generateAgentResponse rejected (lines 793-803).
MessageFailed(request, error, q) ==
    /\ request \in fetches
    /\ request.kind = "agentMessage"
    /\ fetches' = fetches \ {request}
    /\ toasts' = AddToast(toasts, getFriendlyErrorMessage(error, SendDefault),
                          "error")
    /\ chatHistories' =
           [chatHistories EXCEPT ![request.agentId] = Append(@, "agent-error")]
    /\ isLoadingMessage' = FALSE     \* finally { set({isLoadingMessage: false}) }
    /\ UNCHANGED <<vectorVars, gameVars, guideVars, toolStates, schedules,
                   activityLog, currentSession, lastAgentContext,
                   isVoiceNavOpen, reconnectionAgentId, proactiveNavContext,
                   pendingSession, isLoadingQuest, evolutionSummary,
                   isLoadingEvolution, doshaChat, now, nLogged, nFetches>>
    /\ Persist("messageFailed", q)

\* initDoshaChat up to its await (lines 807-814).
InitDoshaChat(q) ==
    /\ isLoadingMessage' = TRUE
    /\ toolStates' = [toolStates EXCEPT
                         !.doshaDiagnosis = [messages |-> <<>>,
                                             isFinished |-> FALSE,
                                             error |-> Null]]
    /\ fetches' = fetches \cup {NewRequest("initDosha", Null)}
    /\ UNCHANGED <<vectorVars, sessionVars, gameVars, guideVars, toasts,
                   schedules, activityLog, isLoadingQuest, evolutionSummary,
                   isLoadingEvolution, doshaChat, now, nLogged, nFetches>>
    /\ Persist("initDoshaChat", q)

\* startDoshaConversation resolved (lines 815-822, 828-830).
InitDoshaResolved(request, q) ==
    /\ request \in fetches
    /\ request.kind = "initDosha"
    /\ fetches' = fetches \ {request}
    /\ doshaChat' = "chat"
    /\ toolStates' = [toolStates EXCEPT
                         !.doshaDiagnosis.messages = Append(@, "agent")]
    /\ isLoadingMessage' = FALSE     \* finally { set({isLoadingMessage: false}) }
    /\ UNCHANGED <<vectorVars, sessionVars, gameVars, guideVars, toasts,
                   schedules, activityLog, isLoadingQuest, evolutionSummary,
                   isLoadingEvolution, now, nLogged, nFetches>>
    /\ Persist("initDoshaResolved", q)

\* startDoshaConversation rejected (lines 823-830).
InitDoshaFailed(request, error, q) ==
    /\ request \in fetches
    /\ request.kind = "initDosha"
    /\ fetches' = fetches \ {request}
    /\ toasts' = AddToast(toasts, getFriendlyErrorMessage(error, InitDoshaDefault),
                          "error")
    /\ toolStates' = [toolStates EXCEPT
                         !.doshaDiagnosis.error =
                             getFriendlyErrorMessage(error, InitDoshaDefault)]
    /\ isLoadingMessage' = FALSE     \* finally { set({isLoadingMessage: false}) }
    /\ UNCHANGED <<vectorVars, sessionVars, gameVars, guideVars, schedules,
                   activityLog, isLoadingQuest, evolutionSummary,
                   isLoadingEvolution, doshaChat, now, nLogged, nFetches>>
    /\ Persist("initDoshaFailed", q)

\* handleDoshaSendMessage up to its await (lines 833-846); without a chat
\* it returns at line 835.
HandleDoshaSendMessage(q) ==
    IF doshaChat = Null
    THEN /\ UNCHANGED <<storeVars, storage, fetches, now, nLogged, nFetches>>
         /\ lastOp' = [op |-> "handleDoshaSendMessage", threw |-> FALSE,
                       wrote |-> FALSE, stale |-> FALSE]
    ELSE /\ toolStates' = [toolStates EXCEPT
                              !.doshaDiagnosis.messages = Append(@, "user"),
                              !.doshaDiagnosis.error = Null]
         /\ isLoadingMessage' = TRUE
         /\ fetches' = fetches \cup {NewRequest("doshaMessage", Null)}
         /\ UNCHANGED <<vectorVars, sessionVars, gameVars, guideVars, toasts,
                        schedules, activityLog, isLoadingQuest,
                        evolutionSummary, isLoadingEvolution, doshaChat, now,
                        nLogged, nFetches>>
         /\ Persist("handleDoshaSendMessage", q)

\* logActivity (and addToast) called from inside the recipe of an enclosing
\* set(produce(...)) (lines 862, 864 inside line 852; line 937 inside line
\* 932): their own set() stores the log, the vector, the points and the
\* toast at once, and the enclosing set() then assigns the recipe's result,
\* which holds for each of those keys the value of the state the recipe
\* was given.
LogActivityInsideRecipe(entryData, toast) ==
    LET orchestrated == orchestrate(entryData, coherenceVector)
        newVector    == orchestrated.newVector
        logged       == ToastsAfterLog(entryData)
    IN  /\ activityLog' = EnclosingSetWins(
               UnshiftAndCut(activityLog, NewLogEntry(entryData, orchestrated)),
               activityLog)
        /\ coherenceVector' = EnclosingSetWins(newVector, coherenceVector)
        /\ coherencePoints' = EnclosingSetWins(
               coherencePoints + orchestrated.pointsGained, coherencePoints)
        /\ ucs' = EnclosingSetWins(calculateUcs(newVector), ucs)
        /\ recommendation' = EnclosingSetWins(
               getPicRecommendation(newVector).agentId, recommendation)
        /\ recommendationName' = EnclosingSetWins(
               getPicRecommendation(newVector).dimensionName,
               recommendationName)
        /\ coherenceStreak' = EnclosingSetWins(
               NextStreak(coherenceStreak, lastActivityTimestamp, now),
               coherenceStreak)
        /\ lastActivityTimestamp' = EnclosingSetWins(now, lastActivityTimestamp)
        /\ activeQuest' = EnclosingSetWins(
               IF QuestCompletedBy(activeQuest, entryData) THEN NoQuest
               ELSE activeQuest, activeQuest)
        /\ completedQuests' = EnclosingSetWins(
               IF QuestCompletedBy(activeQuest, entryData)
               THEN <<[activeQuest EXCEPT !.isCompleted = TRUE,
                                          !.completionTimestamp = now]>>
                        \o completedQuests
               ELSE completedQuests, completedQuests)
        /\ toasts' = EnclosingSetWins(
               IF toast = Null THEN logged
               ELSE AddToast(logged, toast, "info"), toasts)
        /\ nLogged' = nLogged + 1

\* continueDoshaConversation resolved (lines 848-874, 879-881).
DoshaResolved(request, reply, q) ==
    /\ request \in fetches
    /\ request.kind = "doshaMessage"
    /\ fetches' = fetches \ {request}
    /\ toolStates' =
           [toolStates EXCEPT
               !.doshaDiagnosis.messages = Append(@, "agent"),
               !.doshaDiagnosis.isFinished = reply.isFinished,
               !.doshaResult = IF reply.isFinished /\ reply.dosha # Null
                               THEN reply.dosha ELSE @]
    /\ IF reply.isFinished
       THEN LogActivityInsideRecipe(
                ToolUsage("health", "dosh_diagnosis"),
                IF reply.dosha # Null THEN "diagnosis concluded" ELSE Null)
       ELSE UNCHANGED <<vectorVars, gameVars, activityLog, toasts, nLogged>>
    /\ isLoadingMessage' = FALSE     \* finally { set({isLoadingMessage: false}) }
    /\ UNCHANGED <<sessionVars, guideVars, schedules, isLoadingQuest,
                   evolutionSummary, isLoadingEvolution, doshaChat, now,
                   nFetches>>
    /\ storage' = SetItem(storage, Blob(Persisted'), q)
    /\ lastOp' = [op    |-> "doshaResolved",
                  threw |-> ~Fits(Blob(Persisted'), q),
                  wrote |-> SetItemWrote(storage, Blob(Persisted'), q),
                  stale |-> FALSE,
                  reply |-> reply]

\* continueDoshaConversation rejected (lines 875-881).
DoshaFailed(request, error, q) ==
    /\ request \in fetches
    /\ request.kind = "doshaMessage"
    /\ fetches' = fetches \ {request}
    /\ toasts' = AddToast(toasts, getFriendlyErrorMessage(error, DoshaDefault),
                          "error")
    /\ toolStates' = [toolStates EXCEPT
                         !.doshaDiagnosis.error =
                             getFriendlyErrorMessage(error, DoshaDefault)]
    /\ isLoadingMessage' = FALSE     \* finally { set({isLoadingMessage: false}) }
    /\ UNCHANGED <<vectorVars, sessionVars, gameVars, guideVars, schedules,
                   activityLog, isLoadingQuest, evolutionSummary,
                   isLoadingEvolution, doshaChat, now, nLogged, nFetches>>
    /\ Persist("doshaFailed", q)

(***************************************************************************)
(* SpecChat: a mentor chat and the dosha diagnosis, with requests that     *)
(* overlap, resolve and fail.                                              *)
(***************************************************************************)
DoshaMessages == toolStates.doshaDiagnosis.messages

\* Room for one more request and its answer.
RoomForRequest ==
    /\ Cardinality(MessageRequests) < MaxRequests
    /\ Len(chatHistories["health"]) + Len(DoshaMessages)
           + 2 * Cardinality(MessageRequests) + 2 <= MaxMessages

SendMessage ==
    /\ RoomForRequest
    /\ HandleSendMessage("health", NoThrow)

StartDiagnosis ==
    /\ RoomForRequest
    /\ InitDoshaChat(NoThrow)

SendDosha ==
    /\ RoomForRequest
    /\ HandleDoshaSendMessage(NoThrow)

ReplyArrives ==
    \E request \in fetches, reply \in AgentReplies :
        MessageResolved(request, reply, NoThrow)

ReplyFails ==
    /\ Len(toasts) < MaxToasts
    /\ \E request \in fetches : MessageFailed(request, NullError, NoThrow)

DiagnosisStarts ==
    \E request \in fetches : InitDoshaResolved(request, NoThrow)

DiagnosisStartFails ==
    /\ Len(toasts) < MaxToasts
    /\ \E request \in fetches : InitDoshaFailed(request, NullError, NoThrow)

DoshaReplyArrives ==
    \E request \in fetches, reply \in DoshaReplies :
        /\ reply.isFinished => nLogged < MaxLogged
        /\ DoshaResolved(request, reply, NoThrow)

DoshaReplyFails ==
    /\ Len(toasts) < MaxToasts
    /\ \E request \in fetches : DoshaFailed(request, NullError, NoThrow)

NextChat ==
    \/ SendMessage
    \/ StartDiagnosis
    \/ SendDosha
    \/ ReplyArrives
    \/ ReplyFails
    \/ DiagnosisStarts
    \/ DiagnosisStartFails
    \/ DoshaReplyArrives
    \/ DoshaReplyFails
    \/ DismissToast

SpecChat == Init /\ [][NextChat]_vars

\* C27 as stated: once handleDoshaSendMessage has resolved with the final
\* diagnosis, activityLog has the new tool_usage entry at its head,
\* coherenceVector and coherencePoints are the ones the orchestrator
\* returned for it, and the 'diagnosis concluded' toast is on the list.
Cex_C27_NestedLogTakesEffect ==
    [][(lastOp'.op = "doshaResolved" /\ lastOp'.reply.isFinished
            /\ lastOp'.reply.dosha # Null) =>
         LET entryData    == ToolUsage("health", "dosh_diagnosis")
             orchestrated == orchestrate(entryData, coherenceVector)
         IN  /\ Len(activityLog') = Len(activityLog) + 1
             /\ Head(activityLog').toolId = "dosh_diagnosis"
             /\ coherenceVector' = orchestrated.newVector
             /\ coherencePoints' = coherencePoints + orchestrated.pointsGained
             /\ \E k \in 1..Len(toasts') :
                    toasts'[k].message = "diagnosis concluded"]_vars

\* C30 as stated: isLoadingMessage is true whenever at least one message
\* request is in flight and false once all have settled.
Cex_C30_LoadingWhileInFlight ==
    isLoadingMessage <=> MessageRequests # {}

(***************************************************************************)
(* SpecRace: voice sessions started from the navigator and ended one after *)
(* the other, so that proactive-summary requests overlap                   *)
(* (src/types.ts 648-675).                                                 *)
(***************************************************************************)
MaxSummaries == 2   \* SpecRace: proactive-summary requests per run

ExitAwaiting ==
    /\ currentSession # NoSession
    /\ nLogged < MaxArchived
    /\ nFetches < MaxSummaries
    /\ \E isManualExit \in BOOLEAN, hasToolResult \in BOOLEAN :
           EndSession(isManualExit, hasToolResult, NoThrow)

NextRace ==
    \/ FooterOpenNav
    \/ NavigatorQueue
    \/ NavigatorClose
    \/ PendingEffect
    \/ ExitAwaiting
    \/ SummaryArrives
    \/ SummaryFails

SpecRace == Init /\ [][NextRace]_vars

\* C29 as stated: the text of a proactive-summary request is never applied
\* once a later endSession has issued a request of its own; when a request
\* that is not the most recent one resolves, its text does not become the
\* proactiveNavContext.
Cex_C29_EarlierSummaryNeverApplied ==
    [][\A fetch \in fetches :
          (lastOp'.op = "summaryResolved" /\ fetch \notin fetches'
              /\ fetch.id < nFetches)
          => proactiveNavContext' # SummaryOf(fetch)]_vars

(***************************************************************************)
(* SpecFair: several schedules in the list and a poller that keeps         *)
(* ticking (src/App.tsx 96-114).  The interval timer fires every 5 s for   *)
(* as long as the page lives, so a tick is never postponed for ever; the   *)
(* sessions it starts are ended and the toasts it adds are dismissed.      *)
(***************************************************************************)
MaxListed == 2   \* SpecFair: schedules created per run

\* What the scheduler view saves: a one-time call, or a custom recurrence
\* with no weekday ticked.
ListedChoices ==
    {[recurrence |-> "none",   recurrenceDays |-> {}],
     [recurrence |-> "custom", recurrenceDays |-> {}]}

ScheduleListed ==
    /\ currentSession.type = "scheduled_session"
    /\ Len(schedules) < MaxListed
    /\ nLogged < MaxLogged
    /\ toasts = <<>>
    /\ \A k \in 1..Len(schedules) : schedules[k].id # now
    /\ \E r \in ListedChoices :
           AddSchedule([activity       |-> "meditation",
                        time           |-> now + 1,
                        recurrence     |-> r.recurrence,
                        recurrenceDays |-> r.recurrenceDays], NoThrow)

\* The user ends whatever session is active.
LeaveSession ==
    /\ currentSession # NoSession
    /\ EndSession(TRUE, FALSE, NoThrow)

NextFair ==
    \/ OpenScheduler
    \/ ScheduleListed
    \/ LeaveSession
    \/ Elapse
    \/ PollTick
    \/ DismissToast

\* The timer keeps ticking (WF on a tick), and of the ticks that fall while
\* no session is active and a schedule is due, some are taken (SF on such a
\* tick): a user who opens a session again and again does not occupy every
\* tick for ever.
SpecFair ==
    /\ Init
    /\ [][NextFair]_vars
    /\ WF_vars(PollTick)
    /\ SF_vars(PollLate)
    /\ WF_vars(LeaveSession)
    /\ WF_vars(DismissToast)

\* The schedule created at tick id is in the list, 'scheduled' and due.
DueWithId(id) ==
    \E k \in 1..Len(schedules) :
        /\ schedules[k].id = id
        /\ schedules[k].status = "scheduled"
        /\ schedules[k].time <= now

\* The poller has just started the handler session of that schedule.
FiredWithId(id) ==
    /\ lastOp.op = "pollSchedules"
    /\ lastOp.was.id = id
    /\ currentSession.type = "scheduled_session_handler"
    /\ currentSession.schedule = id

\* C28 as stated: under fair polling, with every session eventually ended,
\* every schedule that is 'scheduled' and due is eventually fired.
Cex_C28_DueScheduleEventuallyFired ==
    \A id \in 1..MaxClock : DueWithId(id) ~> FiredWithId(id)

====
